---- MODULE Spec2Model ----
(***************************************************************************)
(* The bilingual documentation site of clawdbot-technical-analysis:        *)
(* docs/.vitepress/config.mts (hostname, head, themeConfig, locales), the  *)
(* content tree it links to, the static build that stamps every page, the  *)
(* locale router that serves a visitor's route, the prebuilt homepage      *)
(* modules and the theme; and, from the lessons the site publishes, the    *)
(* model failover of lesson 8, its circuit breaker, the session cache and  *)
(* the context compressor of lesson 7, the sessions, the security monitor  *)
(* and the process sandbox of lesson 9, the sandbox tool gating and the    *)
(* attempt loop of lesson 4, the skill lifecycle of lesson 6, the resource *)
(* manager of lesson 10 and the WhatsApp target resolution of lesson 3.    *)
(* Each part has its own specification.                                    *)
(*                                                                         *)
(* Strings are TLA+ strings, handled character by character with Len,      *)
(* SubSeq and \o.  The zh-CN display texts of the configuration are not    *)
(* ASCII; they are written here as ASCII glosses that start with "zh:".    *)
(* The homepage frontmatter and page data are compared character by        *)
(* character, so there a character outside ASCII is its code point in      *)
(* braces.                                                                 *)
(***************************************************************************)
EXTENDS Integers, Sequences, FiniteSets, TLC

VARIABLES
    host,       \* the value of `const hostname` the build is run with
    edited,     \* TRUE once the operator has replaced the shipped hostname
    pc,         \* the build's position: "config", "render", "done"
    todo,       \* content files not rendered yet, in build order
    pages,      \* the generated pages
    sitemapXml, \* the entries of the generated sitemap.xml
    route,      \* the route the visitor requested last ("" before any)
    site,       \* the site data resolved for that route
    ssrContext, \* what useSSRContext() returns to the homepage modules
    pushed,     \* the renders so far: module, arguments, strings pushed
    pageData,   \* the __pageData export of each homepage module
    theme,      \* the default export of the theme
    threw,      \* the error the last setup, render or enhanceApp call threw
    called,     \* which of setup, render and enhanceApp have been called
    setupsRun,  \* the ids of the modules whose setup has run on the context
    failover,   \* one call of callModelWithFailover (lesson 8, models)
    now,        \* Date.now(), in milliseconds
    states,     \* CircuitBreaker.states: the circuit of each model
    calls,      \* the calls of FailoverManager.callModelWithFailover under way
    cache,      \* SessionStorageManager.cache, in the Map's insertion order
    disk,       \* the session files: lastAccessed of each stored session
    date,       \* new Date(), counted in operations
    accessedAt, \* when each session was last got or saved
    evicted,    \* the last eviction: its key, and the least recently accessed
                \* keys of the cache at that moment
    authNow, \* Lesson 9: Date.now() of the authentication system
    authTicks, \* Lesson 9: clock steps taken
    sessions, \* Lesson 9: BasicAuthenticationSystem.sessions
    nextSessionId, \* Lesson 9: number of the next generated session id
    created, \* Lesson 9: tokens createSession has returned
    revoked, \* Lesson 9: created tokens passed to revokeSession
    expiredFound, \* Lesson 9: tokens validateSession found expired and deleted
    lastAuth, \* Lesson 9: the last call of the authentication system
    monitorNow, \* Lesson 9: the time events are stamped with, in milliseconds
    monitorTicks, \* Lesson 9: clock steps taken
    eventLog, \* Lesson 9: SecurityMonitor.eventLog
    logged, \* Lesson 9: number of logEvent calls so far
    alertCallbacks, \* Lesson 9: SecurityMonitor.alertCallbacks
    lastLog, \* Lesson 9: the last logEvent call
    memory, \* Lesson 7: the SessionMemory stored under the session id
    memorySaves, \* Lesson 7: saveSession calls made by compactSession
    compactCalls, \* Lesson 7: compactSession calls so far
    lastCompact, \* Lesson 7: the last compactSession call
    sessionContext, \* Lesson 4: the session whose tools are run, with its sandbox
    toolCall, \* Lesson 4: the last secureToolExecution call
    skills, \* Lesson 6: SkillRegistry.skills, the registered skill ids
    activeSkills, \* Lesson 6: SkillLifecycleManager.activeSkills
    skillCall, \* Lesson 6: the last registry or lifecycle call
    activeResources, \* Lesson 10: ResourceManager.activeResources, the type held under each id
    acquiring, \* Lesson 10: the acquireResource calls under way
    acquireReturn, \* Lesson 10: the acquireResource call that returned last
    run, \* Lesson 4: one run of runEmbeddedPiAgent
    resolved, \* Lesson 3: the last outbound.resolveTarget call and its result
    proc \* Lesson 9: one runInSandbox call, its child and its timers

siteVars == <<host, edited, pc, todo, pages, sitemapXml, route, site>>

ssrVars == <<ssrContext, pushed, pageData, theme, threw, called, setupsRun>>

breakerVars == <<now, states, calls>>

storageVars == <<cache, disk, date, accessedAt, evicted>>

authVars == <<authNow, authTicks, sessions, nextSessionId, created, revoked, expiredFound, lastAuth>>

monitorVars == <<monitorNow, monitorTicks, eventLog, logged, alertCallbacks, lastLog>>

compactVars == <<memory, memorySaves, compactCalls, lastCompact>>

sandboxVars == <<sessionContext, toolCall>>

skillVars == <<skills, activeSkills, skillCall>>

resourceVars == <<activeResources, acquiring, acquireReturn>>

vars == <<siteVars, ssrVars, failover, breakerVars, storageVars, authVars, monitorVars, compactVars, sandboxVars, skillVars, resourceVars, run, resolved, proc>>

\* What an operation of one part of the repository leaves alone: the state of
\* the other parts.
notSite == <<ssrVars, failover, breakerVars, storageVars, authVars, monitorVars, compactVars, sandboxVars, skillVars, resourceVars, run, resolved, proc>>

notSSR == <<siteVars, failover, breakerVars, storageVars, authVars, monitorVars, compactVars, sandboxVars, skillVars, resourceVars, run, resolved, proc>>

notFailover == <<siteVars, ssrVars, breakerVars, storageVars, authVars, monitorVars, compactVars, sandboxVars, skillVars, resourceVars, run, resolved, proc>>

notBreaker == <<siteVars, ssrVars, failover, storageVars, authVars, monitorVars, compactVars, sandboxVars, skillVars, resourceVars, run, resolved, proc>>

notStorage == <<siteVars, ssrVars, failover, breakerVars, authVars, monitorVars, compactVars, sandboxVars, skillVars, resourceVars, run, resolved, proc>>

notAuth == <<siteVars, ssrVars, failover, breakerVars, storageVars, monitorVars, compactVars, sandboxVars, skillVars, resourceVars, run, resolved, proc>>

notMonitor == <<siteVars, ssrVars, failover, breakerVars, storageVars, authVars, compactVars, sandboxVars, skillVars, resourceVars, run, resolved, proc>>

notCompact == <<siteVars, ssrVars, failover, breakerVars, storageVars, authVars, monitorVars, sandboxVars, skillVars, resourceVars, run, resolved, proc>>

notSandbox == <<siteVars, ssrVars, failover, breakerVars, storageVars, authVars, monitorVars, compactVars, skillVars, resourceVars, run, resolved, proc>>

notSkills == <<siteVars, ssrVars, failover, breakerVars, storageVars, authVars, monitorVars, compactVars, sandboxVars, resourceVars, run, resolved, proc>>

notResources == <<siteVars, ssrVars, failover, breakerVars, storageVars, authVars, monitorVars, compactVars, sandboxVars, skillVars, run, resolved, proc>>

notAgent == <<siteVars, ssrVars, failover, breakerVars, storageVars, authVars, monitorVars, compactVars, sandboxVars, skillVars, resourceVars, resolved, proc>>

notChannel == <<siteVars, ssrVars, failover, breakerVars, storageVars, authVars, monitorVars, compactVars, sandboxVars, skillVars, resourceVars, run, proc>>

notProc == <<siteVars, ssrVars, failover, breakerVars, storageVars, authVars, monitorVars, compactVars, sandboxVars, skillVars, resourceVars, run, resolved>>

----------------------------------------------------------------------------
(* Bounds *)

\* Longest visitor route, in path segments.
MaxRouteLen == 3

----------------------------------------------------------------------------
(* Strings *)

StartsWith(s, p) == Len(p) <= Len(s) /\ SubSeq(s, 1, Len(p)) = p

EndsWith(s, p) == Len(p) <= Len(s) /\ SubSeq(s, Len(s) - Len(p) + 1, Len(s)) = p

DropFirst(s, n) == SubSeq(s, n + 1, Len(s))

DropLast(s, n) == SubSeq(s, 1, Len(s) - n)

\* The path segments of s: the non-empty pieces between its slashes.
RECURSIVE SplitFrom(_, _, _)
SplitFrom(s, i, cur) ==
    IF i > Len(s)
    THEN IF cur = "" THEN <<>> ELSE <<cur>>
    ELSE LET c == SubSeq(s, i, i)
         IN  IF c = "/"
             THEN (IF cur = "" THEN <<>> ELSE <<cur>>) \o SplitFrom(s, i + 1, "")
             ELSE SplitFrom(s, i + 1, cur \o c)

Segments(s) == SplitFrom(s, 1, "")

Range(f) == {f[i] : i \in DOMAIN f}

----------------------------------------------------------------------------
(* docs/.vitepress/config.mts *)

hostname_trailingSlash == "https://clawdbot-guide.com/"

\* const hostname = 'https://clawdbot-guide.com'
hostname == "https://clawdbot-guide.com"

sitemap_ownHostname(h) == [hostname |-> "https://your-actual-domain.com"]

\* sitemap: { hostname: hostname }
sitemap(h) == [hostname |-> h]

\* cleanUrls: true
cleanUrls == TRUE

ogImage_noSlash(h) == h \o "pixel-lobster.svg"

\* `${hostname}/pixel-lobster.svg`, the content of og:image and of twitter:image
ogImage(h) == h \o "/pixel-lobster.svg"

\* head: the tag tuples, with the hostname interpolated into the two image tags.
head(h) ==
    << [tag |-> "link", key |-> "rel",      name |-> "icon",          content |-> "/pixel-lobster.svg"],
       [tag |-> "meta", key |-> "name",     name |-> "theme-color",   content |-> "#bd34fe"],
       [tag |-> "meta", key |-> "name",     name |-> "author",        content |-> "Gnod"],
       [tag |-> "meta", key |-> "property", name |-> "og:type",       content |-> "website"],
       [tag |-> "meta", key |-> "property", name |-> "og:image",      content |-> ogImage(h)],
       [tag |-> "meta", key |-> "name",     name |-> "twitter:card",  content |-> "summary_large_image"],
       [tag |-> "meta", key |-> "name",     name |-> "twitter:image", content |-> ogImage(h)] >>

\* The global themeConfig.
themeConfig ==
    [ logo        |-> "/pixel-lobster.svg",
      siteTitle   |-> "zh:Clawdbot technical analysis",
      socialLinks |-> << [icon |-> "github",
                          link |-> "https://github.com/nodfe/clawdbot-technical-analysis"] >>,
      footer      |-> [ message   |-> "Created by Gnod. This site is for educational purposes.",
                        copyright |-> "Clawdbot logo and trademarks belong to their respective owners." ],
      search      |-> [ provider |-> "local", locales |-> {"root"} ],
      editLink    |-> [ pattern |-> "https://github.com/nodfe/clawdbot-technical-analysis/edit/main/docs/:path",
                        text    |-> "zh:Edit this page on GitHub" ] ]

rootNav_renamedPage ==
    << [text |-> "zh:Home",       link |-> "/"],
       [text |-> "zh:Read guide", link |-> "/guide/introduction"],
       [text |-> "GitHub",        link |-> "https://github.com/nodfe/clawdbot-technical-analysis"] >>

\* locales.root.themeConfig.nav
rootNav ==
    << [text |-> "zh:Home",       link |-> "/"],
       [text |-> "zh:Read guide", link |-> "/guide/intro"],
       [text |-> "GitHub",        link |-> "https://github.com/nodfe/clawdbot-technical-analysis"] >>

\* locales.root.themeConfig.sidebar[0].items
rootSidebarItems ==
    << [text |-> "zh:1. Overview and architecture", link |-> "/guide/intro"],
       [text |-> "zh:2. Gateway core mechanism",    link |-> "/guide/gateway"],
       [text |-> "zh:3. Multi-channel system",      link |-> "/guide/channels"],
       [text |-> "zh:4. Agent system",              link |-> "/guide/agents"],
       [text |-> "zh:5. Tools and extensions",      link |-> "/guide/tools"],
       [text |-> "zh:6. Skills and plugins",        link |-> "/guide/skills"],
       [text |-> "zh:7. Memory and state",          link |-> "/guide/memory"],
       [text |-> "zh:8. Model integration",         link |-> "/guide/models"],
       [text |-> "zh:9. Security and permissions",  link |-> "/guide/security"],
       [text |-> "zh:10. Deployment",               link |-> "/guide/deployment"] >>

enNav_rootGuide ==
    << [text |-> "Home",       link |-> "/en/"],
       [text |-> "Read Guide", link |-> "/guide/intro"],
       [text |-> "GitHub",     link |-> "https://github.com/nodfe/clawdbot-technical-analysis"] >>

\* locales.en.themeConfig.nav
enNav ==
    << [text |-> "Home",       link |-> "/en/"],
       [text |-> "Read Guide", link |-> "/en/guide/intro"],
       [text |-> "GitHub",     link |-> "https://github.com/nodfe/clawdbot-technical-analysis"] >>

\* locales.en.themeConfig.sidebar[0].items
enSidebarItems ==
    << [text |-> "1. Overview & Architecture", link |-> "/en/guide/intro"],
       [text |-> "2. Gateway Mechanism",       link |-> "/en/guide/gateway"],
       [text |-> "3. Multi-Channel System",    link |-> "/en/guide/channels"],
       [text |-> "4. Agent System",            link |-> "/en/guide/agents"],
       [text |-> "5. Tools & Extensions",      link |-> "/en/guide/tools"],
       [text |-> "6. Skills & Plugins",        link |-> "/en/guide/skills"],
       [text |-> "7. Memory Management",       link |-> "/en/guide/memory"],
       [text |-> "8. Model Integration",       link |-> "/en/guide/models"],
       [text |-> "9. Security Model",          link |-> "/en/guide/security"],
       [text |-> "10. Deployment",             link |-> "/en/guide/deployment"] >>

\* locales.root
rootLocale ==
    [ label       |-> "zh:Simplified Chinese",
      lang        |-> "zh-CN",
      title       |-> "zh:Clawdbot technical analysis",
      description |-> "zh:Clawdbot in-depth technical guide",
      themeConfig |-> [ nav     |-> rootNav,
                        sidebar |-> << [text  |-> "zh:Technical deep dive tutorial",
                                        items |-> rootSidebarItems] >> ] ]

\* locales.en
enLocale ==
    [ label       |-> "English",
      lang        |-> "en",
      link        |-> "/en/",
      title       |-> "Clawdbot Deep Dive",
      description |-> "In-depth Technical Guide for Clawdbot",
      themeConfig |-> [ siteTitle   |-> "Clawdbot Deep Dive",
                        editLink    |-> [text |-> "Edit this page on GitHub"],
                        lastUpdated |-> [text |-> "Last updated"],
                        nav         |-> enNav,
                        sidebar     |-> << [text  |-> "Technical Deep Dive",
                                            items |-> enSidebarItems] >> ] ]

locales_swapped == [root |-> enLocale, en |-> rootLocale]

locales_overlap == [k \in {"root", "en", "en/guide"} |-> IF k = "root" THEN rootLocale ELSE enLocale]

\* locales: the locale map, keyed by locale.
locales == [root |-> rootLocale, en |-> enLocale]

----------------------------------------------------------------------------
(* The content tree under docs/ *)

\* The ten lessons, in lesson order.
Lessons ==
    << "intro", "gateway", "channels", "agents", "tools",
       "skills", "memory", "models", "security", "deployment" >>

\* The Markdown files of one locale tree, relative to that tree.
TreeFiles == <<"index.md">> \o [i \in 1..Len(Lessons) |-> "guide/" \o Lessons[i] \o ".md"]

\* Every content file, relative to docs/, in build order: the root (zh-CN)
\* tree, then the en/ tree.
ContentFiles == TreeFiles \o [i \in 1..Len(TreeFiles) |-> "en/" \o TreeFiles[i]]

----------------------------------------------------------------------------
(* The static-site generator, as far as the site's configuration drives it *)

\* The route a content file is served at: an index.md at its directory, any
\* other file at its path without the extension (with cleanUrls) or with
\* .html in its place.
FileToRoute(f) ==
    IF EndsWith(f, "index.md")
    THEN "/" \o DropLast(f, 8)
    ELSE "/" \o DropLast(f, 3) \o (IF cleanUrls THEN "" ELSE ".html")

\* The content file a site-internal link refers to.
LinkToFile(link) ==
    IF EndsWith(link, "/")
    THEN DropFirst(link, 1) \o "index.md"
    ELSE DropFirst(link, 1) \o ".md"

\* The route prefix of a locale: empty for the default locale, "/<key>" for
\* any other.
LocalePrefix(k) == IF k = "root" THEN "" ELSE "/" \o k

\* A non-default locale matches the routes under its prefix.
LocaleMatches(k, r) == k # "root" /\ StartsWith(r \o "/", LocalePrefix(k) \o "/")

\* The locales that claim route r: the matching non-default ones, or the
\* default locale when none matches.
MatchingLocales(r) ==
    LET nd == {k \in DOMAIN locales : LocaleMatches(k, r)}
    IN  IF nd = {} THEN {"root"} ELSE nd

\* Global themeConfig overridden by the fields of the locale's themeConfig.
MergeThemeConfig(g, l) ==
    [k \in DOMAIN g \cup DOMAIN l |-> IF k \in DOMAIN l THEN l[k] ELSE g[k]]

\* The site data a page of locale k is rendered with.
ResolveSiteData(k) ==
    [ localeIndex |-> k,
      lang        |-> locales[k].lang,
      title       |-> locales[k].title,
      description |-> locales[k].description,
      themeConfig |-> MergeThemeConfig(themeConfig, locales[k].themeConfig) ]

\* The content of the head tag called n.
TagContent(hd, n) == (CHOOSE t \in Range(hd) : t.name = n).content

\* The links of a themeConfig's nav items and sidebar items.
NavSidebarLinks(tc) ==
    {it.link : it \in Range(tc.nav)}
        \cup UNION {{it.link : it \in Range(g.items)} : g \in Range(tc.sidebar)}

----------------------------------------------------------------------------
(* Inputs *)

\* Hostnames an operator may configure: the shipped one, the spec's example
\* and the README's placeholder, each with and without scheme and trailing
\* slash.
Hostnames ==
    { s \o d \o t : s \in {"", "https://", "http://"},
                    d \in {"clawdbot-guide.com", "example.org", "your-actual-domain.com"},
                    t \in {"", "/"} }

RouteSegments == {"en", "guide", "tools", "intro", "english"}

RECURSIVE JoinPath(_)
JoinPath(segs) == IF segs = <<>> THEN "" ELSE "/" \o Head(segs) \o JoinPath(Tail(segs))

\* Visitor routes: up to MaxRouteLen segments, with and without a trailing slash.
Routes ==
    LET paths == UNION {[1..n -> RouteSegments] : n \in 0..MaxRouteLen}
    IN  {"/"} \cup {JoinPath(p) \o t : p \in paths \ {<<>>}, t \in {"", "/"}}

----------------------------------------------------------------------------
(* The build and the deployed site *)

NoSite == [localeIndex |-> ""]

SiteInit ==
    /\ host = hostname
    /\ edited = FALSE
    /\ pc = "config"
    /\ todo = ContentFiles
    /\ pages = {}
    /\ sitemapXml = {}
    /\ route = ""
    /\ site = NoSite

\* The operator replaces the hostname before deploying.
EditHostname(h) ==
    /\ pc = "config"
    /\ ~edited
    /\ host' = h
    /\ edited' = TRUE
    /\ UNCHANGED <<pc, todo, pages, sitemapXml, route, site>>
    /\ UNCHANGED notSite

\* The configuration is read once, at build start.
StartBuild ==
    /\ pc = "config"
    /\ pc' = "render"
    /\ UNCHANGED <<host, edited, todo, pages, sitemapXml, route, site>>
    /\ UNCHANGED notSite

\* One content file becomes one page: its route, its locale, and the head
\* tags of the configuration.
RenderPage ==
    /\ pc = "render"
    /\ todo # <<>>
    /\ LET f == Head(todo)
           r == FileToRoute(f)
       IN  \E k \in MatchingLocales(r) :
               pages' = pages \cup
                   {[file |-> f, route |-> r, localeIndex |-> k, head |-> head(host)]}
    /\ todo' = Tail(todo)
    /\ UNCHANGED <<host, edited, pc, sitemapXml, route, site>>
    /\ UNCHANGED notSite

\* sitemap.xml: one entry per page, the sitemap hostname before its route.
WriteSitemap ==
    /\ pc = "render"
    /\ todo = <<>>
    /\ sitemapXml' = {sitemap(host).hostname \o p.route : p \in pages}
    /\ pc' = "done"
    /\ UNCHANGED <<host, edited, todo, pages, route, site>>
    /\ UNCHANGED notSite

\* A visitor requests route r of the deployed site; requests are served one
\* at a time.
Navigate(r) ==
    /\ pc = "done"
    /\ route = ""
    /\ \E k \in MatchingLocales(r) :
           /\ route' = r
           /\ site' = ResolveSiteData(k)
    /\ UNCHANGED <<host, edited, pc, todo, pages, sitemapXml>>
    /\ UNCHANGED notSite

\* The request is over; nothing of it stays behind.
Leave ==
    /\ route # ""
    /\ route' = ""
    /\ site' = NoSite
    /\ UNCHANGED <<host, edited, pc, todo, pages, sitemapXml>>
    /\ UNCHANGED notSite

Next ==
    \/ \E h \in Hostnames : EditHostname(h)
    \/ StartBuild
    \/ RenderPage
    \/ WriteSitemap
    \/ \E r \in Routes : Navigate(r)
    \/ Leave

----------------------------------------------------------------------------
(* The prebuilt homepage modules (en/index.md, index.md) and the theme *)

\* Renders one run keeps a record of.
MaxRenders == 2

actions_en_swapped ==
    <<[theme |-> "alt", text |-> "GitHub", link |-> "https://github.com/clawdbot/clawdbot"],
      [theme |-> "brand", text |-> "Start Reading", link |-> "/en/guide/intro"]>>

\* The hero actions of the two page data, first the primary one.
actions_en ==
    <<[theme |-> "brand", text |-> "Start Reading", link |-> "/en/guide/intro"],
      [theme |-> "alt", text |-> "GitHub", link |-> "https://github.com/clawdbot/clawdbot"]>>

actions_root ==
    <<[theme |-> "brand", text |-> "{5F00}{59CB}{9605}{8BFB}", link |-> "/guide/intro"],
      [theme |-> "alt", text |-> "GitHub {4ED3}{5E93}", link |-> "https://github.com/clawdbot/clawdbot"]>>

\* The page data of a homepage module, as JSON.parse returns it.  A character
\* outside ASCII is written as its code point in braces, null as "null".
__pageData_en ==
    [title |-> "",
     description |-> "",
     frontmatter |-> [layout |-> "home",
         hero |-> [name |-> "Clawdbot Deep Dive",
             text |-> "Technical Guide",
             tagline |-> "A comprehensive analysis from architecture to implementation",
             image |-> [src |-> "/pixel-lobster.svg", alt |-> "Clawdbot Logo"],
             actions |-> actions_en],
         features |-> <<[title |-> "Multi-Channel Support",
                details |-> "Deep dive into the implementation of WhatsApp, Telegram, Discord integrations.",
                icon |-> "{1F4AC}"],
              [title |-> "Tool Ecosystem",
                details |-> "Analysis of the built-in tool system and extension mechanisms.",
                icon |-> "{1F6E0}{FE0F}"],
              [title |-> "Local-First Architecture",
                details |-> "Understanding the security model and local data management.",
                icon |-> "{1F512}"],
              [title |-> "Intelligent Agent",
                details |-> "Exploring the Agent runtime, model switching, and memory systems.",
                icon |-> "{1F9E0}"]>>],
     headers |-> <<>>,
     relativePath |-> "en/index.md",
     filePath |-> "en/index.md",
     lastUpdated |-> "null"]

__pageData_root ==
    [title |-> "",
     description |-> "",
     frontmatter |-> [layout |-> "home",
         hero |-> [name |-> "Clawdbot {6280}{672F}{89E3}{6790}",
             text |-> "{6DF1}{5EA6}{6280}{672F}{6307}{5357}",
             tagline |-> "{4ECE}{67B6}{6784}{8BBE}{8BA1}{5230}{4EE3}{7801}{5B9E}{73B0}{7684}{5B8C}{5168}{89E3}{6790}{FF0C}{52A9}{4F60}{6DF1}{5165}{7406}{89E3} Clawdbot",
             image |-> [src |-> "/pixel-lobster.svg", alt |-> "Clawdbot Logo"],
             actions |-> actions_root],
         features |-> <<[title |-> "{6DF1}{5EA6}{67B6}{6784}{5206}{6790}",
                details |-> "{6DF1}{5165}{5256}{6790} Gateway{3001}Agent {8FD0}{884C}{65F6}{53CA}{591A}{901A}{9053}{7CFB}{7EDF}{7684}{5E95}{5C42}{5B9E}{73B0}{539F}{7406}{3002}",
                icon |-> "{1F50D}"],
              [title |-> "{6838}{5FC3}{6E90}{7801}{89E3}{8BFB}",
                details |-> "{89E3}{6790}{5DE5}{5177}{7CFB}{7EDF}{3001}{5185}{5B58}{7BA1}{7406}{548C}{5B89}{5168}{6A21}{578B}{7684}{5173}{952E}{4EE3}{7801}{903B}{8F91}{4E0E}{8BBE}{8BA1}{601D}{60F3}{3002}",
                icon |-> "{1F4BB}"],
              [title |-> "{6700}{4F73}{5B9E}{8DF5}{6307}{5357}",
                details |-> "{57FA}{4E8E}{5B9E}{6218}{7ECF}{9A8C}{7684}{90E8}{7F72}{3001}{8FD0}{7EF4}{3001}{6027}{80FD}{4F18}{5316}{4E0E}{63D2}{4EF6}{5F00}{53D1}{5EFA}{8BAE}{3002}",
                icon |-> "{1F680}"],
              [title |-> "{4E2A}{4EBA}{6280}{672F}{5206}{4EAB}",
                details |-> "{4EE5}{7B2C}{4E09}{65B9}{5F00}{53D1}{8005}{89C6}{89D2}{FF0C}{5BA2}{89C2}{5206}{6790} Clawdbot {7684}{6280}{672F}{7279}{70B9}{4E0E}{5E94}{7528}{573A}{666F}{3002}",
                icon |-> "{1F4DD}"]>>],
     headers |-> <<>>,
     relativePath |-> "index.md",
     filePath |-> "index.md",
     lastUpdated |-> "null"]

\* The modules by the key they are loaded under, and the name each registers.
Modules == [en |-> "en/index.md", root |-> "index.md"]

\* Keys ssrRenderAttrs never renders.
IgnoredProps == {"key", "ref", "innerHTML", "textContent", "ref_key", "ref_for"}

\* ssrRenderAttrs: one ' name="value"' per attribute, in order.
RECURSIVE ssrRenderAttrs(_)
ssrRenderAttrs(_attrs) ==
    IF _attrs = <<>>
    THEN ""
    ELSE LET a == Head(_attrs)
         IN  (IF a.key \in IgnoredProps
              THEN ""
              ELSE " " \o a.key \o "=\"" \o a.value \o "\"")
             \o ssrRenderAttrs(Tail(_attrs))

_sfc_ssrRender_usesProps(_ctx, _attrs, props) ==
    <<"<div" \o ssrRenderAttrs(_attrs) \o ">" \o props.title \o "</div>">>

\* The render function of either module: the strings it hands to _push.
_sfc_ssrRender(_ctx, _attrs, props) ==
    <<"<div" \o ssrRenderAttrs(_attrs) \o "></div>">>

setup_noNewSet(k, ssrCtx, pd) ==
    IF ~ssrCtx.defined \/ ~ssrCtx.hasModules
    THEN [ssrContext |-> ssrCtx, pageData |-> pd, threw |-> "TypeError"]
    ELSE [ssrContext |-> [ssrCtx EXCEPT !.modules = ssrCtx.modules \cup {Modules[k]}],
          pageData   |-> pd,
          threw      |-> ""]

setup_replacesSet(k, ssrCtx, pd) ==
    IF ~ssrCtx.defined
    THEN [ssrContext |-> ssrCtx, pageData |-> pd, threw |-> "TypeError"]
    ELSE [ssrContext |-> [ssrCtx EXCEPT !.hasModules = TRUE, !.modules = {Modules[k]}],
          pageData   |-> pd,
          threw      |-> ""]

setup_stampsPageData(k, ssrCtx, pd) ==
    [ssrContext |-> ssrCtx,
     pageData   |-> [pd EXCEPT ![k].lastUpdated = "now"],
     threw      |-> ""]

\* _sfc_main.setup of module k, on the context useSSRContext() returned and
\* the module's exports: it registers the module's name in ssrContext.modules,
\* creating the set when there is none; reading .modules of an absent context
\* is a TypeError.  There is no earlier setup to chain to.
setup(k, ssrCtx, pd) ==
    IF ~ssrCtx.defined
    THEN [ssrContext |-> ssrCtx, pageData |-> pd, threw |-> "TypeError"]
    ELSE [ssrContext |->
              [ssrCtx EXCEPT !.hasModules = TRUE,
                             !.modules = (IF ssrCtx.hasModules THEN ssrCtx.modules ELSE {})
                                         \cup {Modules[k]}],
          pageData   |-> pd,
          threw      |-> ""]

\* The theme: the default theme extended with the repository's Layout.
themeExport == [extends |-> "DefaultTheme", Layout |-> "Layout", enhanceApp |-> "enhanceApp"]

\* enhanceApp({ app }): its body is empty.
enhanceApp(app, th) == [app |-> app, theme |-> th]

\* The contexts a module may be set up in: none, one with no modules set yet,
\* one whose set is empty, one on which another page's module was set up.
NoContext == [defined |-> FALSE, hasModules |-> FALSE, modules |-> {}]

SSRContexts ==
    {NoContext,
     [defined |-> TRUE, hasModules |-> FALSE, modules |-> {}],
     [defined |-> TRUE, hasModules |-> TRUE, modules |-> {}],
     [defined |-> TRUE, hasModules |-> TRUE, modules |-> {"guide/intro.md"}]}

\* Arguments of a render: component instances, attributes, props.
RenderCtxs == {[lang |-> "zh-CN"], [lang |-> "en-US"]}

RenderAttrs ==
    {<<>>,
     <<[key |-> "class", value |-> "home"]>>,
     <<[key |-> "class", value |-> "home"], [key |-> "id", value |-> "app"]>>,
     <<[key |-> "key", value |-> "k1"]>>}

RenderProps == {[title |-> ""], [title |-> "Home"]}

Apps == {"app"}

\* The modules and the theme as loaded, before any call.
SSRLoaded ==
    /\ pushed = {}
    /\ pageData = [en |-> __pageData_en, root |-> __pageData_root]
    /\ theme = themeExport
    /\ threw = ""
    /\ called = {}
    /\ setupsRun = ssrContext.modules

SSRIdle == ssrContext = NoContext /\ SSRLoaded

Setup(k) ==
    LET r == setup(k, ssrContext, pageData)
    IN  /\ ssrContext' = r.ssrContext
        /\ pageData' = r.pageData
        /\ threw' = r.threw
        /\ called' = called \cup {"setup"}
        /\ setupsRun' = IF r.threw = "" THEN setupsRun \cup {Modules[k]} ELSE setupsRun
        /\ UNCHANGED <<pushed, theme>>
        /\ UNCHANGED notSSR

Render(k, c, a, p) ==
    LET r == [module |-> Modules[k], ctx |-> c, attrs |-> a, props |-> p,
              out |-> _sfc_ssrRender(c, a, p)]
    IN  /\ r \in pushed \/ Cardinality(pushed) < MaxRenders
        /\ pushed' = pushed \cup {r}
        /\ threw' = ""
        /\ called' = called \cup {"render"}
        /\ UNCHANGED <<ssrContext, pageData, theme, setupsRun>>
        /\ UNCHANGED notSSR

EnhanceApp(app) ==
    /\ theme' = enhanceApp(app, theme).theme
    /\ threw' = ""
    /\ called' = called \cup {"enhanceApp"}
    /\ UNCHANGED <<ssrContext, pushed, pageData, setupsRun>>
    /\ UNCHANGED notSSR

SSRNext ==
    \/ \E k \in DOMAIN Modules : Setup(k)
    \/ \E k \in DOMAIN Modules, c \in RenderCtxs, a \in RenderAttrs, p \in RenderProps :
           Render(k, c, a, p)
    \/ \E app \in Apps : EnhanceApp(app)

----------------------------------------------------------------------------
(* The homepage documents (docs/en/index.md, docs/index.md) and their       *)
(* frontmatter                                                              *)

\* The first lines of each document, up to the line that closes the
\* frontmatter, with the character encoding of the page data.
frontmatter_en ==
    <<"---",
      "layout: home",
      "",
      "hero:",
      "  name: \"Clawdbot Deep Dive\"",
      "  text: \"Technical Guide\"",
      "  tagline: A comprehensive analysis from architecture to implementation",
      "  image:",
      "    src: /pixel-lobster.svg",
      "    alt: Clawdbot Logo",
      "  actions:",
      "    - theme: brand",
      "      text: Start Reading",
      "      link: /en/guide/intro",
      "    - theme: alt",
      "      text: GitHub",
      "      link: https://github.com/clawdbot/clawdbot",
      "",
      "features:",
      "  - title: Multi-Channel Support",
      "    details: Deep dive into the implementation of WhatsApp, Telegram, Discord integrations.",
      "    icon: {1F4AC}",
      "  - title: Tool Ecosystem",
      "    details: Analysis of the built-in tool system and extension mechanisms.",
      "    icon: {1F6E0}{FE0F}",
      "  - title: Local-First Architecture",
      "    details: Understanding the security model and local data management.",
      "    icon: {1F512}",
      "  - title: Intelligent Agent",
      "    details: Exploring the Agent runtime, model switching, and memory systems.",
      "    icon: {1F9E0}",
      "---">>

frontmatter_root ==
    <<"---",
      "layout: home",
      "",
      "hero:",
      "  name: \"Clawdbot {6280}{672F}{89E3}{6790}\"",
      "  text: \"{6DF1}{5EA6}{6280}{672F}{6307}{5357}\"",
      "  tagline: {4ECE}{67B6}{6784}{8BBE}{8BA1}{5230}{4EE3}{7801}{5B9E}{73B0}{7684}{5B8C}{5168}{89E3}{6790}{FF0C}{52A9}{4F60}{6DF1}{5165}{7406}{89E3} Clawdbot",
      "  image:",
      "    src: /pixel-lobster.svg",
      "    alt: Clawdbot Logo",
      "  actions:",
      "    - theme: brand",
      "      text: {5F00}{59CB}{9605}{8BFB}",
      "      link: /guide/intro",
      "    - theme: alt",
      "      text: GitHub {4ED3}{5E93}",
      "      link: https://github.com/clawdbot/clawdbot",
      "",
      "features:",
      "  - title: {6DF1}{5EA6}{67B6}{6784}{5206}{6790}",
      "    details: {6DF1}{5165}{5256}{6790} Gateway{3001}Agent {8FD0}{884C}{65F6}{53CA}{591A}{901A}{9053}{7CFB}{7EDF}{7684}{5E95}{5C42}{5B9E}{73B0}{539F}{7406}{3002}",
      "    icon: {1F50D}",
      "  - title: {6838}{5FC3}{6E90}{7801}{89E3}{8BFB}",
      "    details: {89E3}{6790}{5DE5}{5177}{7CFB}{7EDF}{3001}{5185}{5B58}{7BA1}{7406}{548C}{5B89}{5168}{6A21}{578B}{7684}{5173}{952E}{4EE3}{7801}{903B}{8F91}{4E0E}{8BBE}{8BA1}{601D}{60F3}{3002}",
      "    icon: {1F4BB}",
      "  - title: {6700}{4F73}{5B9E}{8DF5}{6307}{5357}",
      "    details: {57FA}{4E8E}{5B9E}{6218}{7ECF}{9A8C}{7684}{90E8}{7F72}{3001}{8FD0}{7EF4}{3001}{6027}{80FD}{4F18}{5316}{4E0E}{63D2}{4EF6}{5F00}{53D1}{5EFA}{8BAE}{3002}",
      "    icon: {1F680}",
      "  - title: {4E2A}{4EBA}{6280}{672F}{5206}{4EAB}",
      "    details: {4EE5}{7B2C}{4E09}{65B9}{5F00}{53D1}{8005}{89C6}{89D2}{FF0C}{5BA2}{89C2}{5206}{6790} Clawdbot {7684}{6280}{672F}{7279}{70B9}{4E0E}{5E94}{7528}{573A}{666F}{3002}",
      "    icon: {1F4DD}",
      "---">>

RECURSIVE LeadingSpaces(_)
LeadingSpaces(s) ==
    IF s # "" /\ SubSeq(s, 1, 1) = " " THEN 1 + LeadingSpaces(DropFirst(s, 1)) ELSE 0

\* The first position of p in s at or after i, 0 when there is none.
RECURSIVE IndexOf(_, _, _)
IndexOf(s, p, i) ==
    IF i + Len(p) - 1 > Len(s) THEN 0
    ELSE IF SubSeq(s, i, i + Len(p) - 1) = p THEN i
    ELSE IndexOf(s, p, i + 1)

\* A double-quoted scalar is its content; a plain scalar is itself.
Unquote(s) ==
    IF Len(s) >= 2 /\ StartsWith(s, "\"") /\ EndsWith(s, "\"")
    THEN SubSeq(s, 2, Len(s) - 1)
    ELSE s

\* One line of block YAML: the column of its key, whether it opens a list
\* item, the key, and the scalar after it ("" when a block follows).
ParseLine(l) ==
    LET i    == LeadingSpaces(l)
        body == DropFirst(l, i)
        dash == StartsWith(body, "- ")
        kv   == IF dash THEN DropFirst(body, 2) ELSE body
        c    == IndexOf(kv, ": ", 1)
    IN  [indent |-> IF dash THEN i + 2 ELSE i,
         dash   |-> dash,
         key    |-> IF c > 0 THEN SubSeq(kv, 1, c - 1) ELSE DropLast(kv, 1),
         value  |-> IF c > 0 THEN Unquote(DropFirst(kv, c + 1)) ELSE ""]

\* The open blocks that enclose column d.
RECURSIVE PopTo(_, _)
PopTo(stack, d) ==
    IF stack[Len(stack)].indent >= d
    THEN PopTo(SubSeq(stack, 1, Len(stack) - 1), d)
    ELSE stack

\* The scalars of the block from line i on, each with its path from the
\* root: "hero.actions[1].link".  stack holds the open blocks, innermost
\* last, each with its column, its path and the list items seen in it.
RECURSIVE ParseFrom(_, _, _, _)
ParseFrom(lines, i, stack, acc) ==
    IF i > Len(lines) \/ lines[i] = "---" THEN acc
    ELSE IF lines[i] = "" THEN ParseFrom(lines, i + 1, stack, acc)
    ELSE LET pl     == ParseLine(lines[i])
             s1     == PopTo(stack, IF pl.dash THEN pl.indent - 2 ELSE pl.indent)
             parent == s1[Len(s1)]
             s2     == IF pl.dash
                       THEN [s1 EXCEPT ![Len(s1)].n = parent.n + 1] \o
                            <<[indent |-> pl.indent - 2,
                               path   |-> parent.path \o "[" \o ToString(parent.n + 1) \o "]",
                               n      |-> 0]>>
                       ELSE s1
             within == s2[Len(s2)].path
             path   == IF within = "" THEN pl.key ELSE within \o "." \o pl.key
         IN  IF pl.value = ""
             THEN ParseFrom(lines, i + 1,
                            s2 \o <<[indent |-> pl.indent, path |-> path, n |-> 0]>>, acc)
             ELSE ParseFrom(lines, i + 1, s2, acc \cup {<<path, pl.value>>})

\* The frontmatter of a document: the block between its first line, "---",
\* and the next "---".
ParseFrontmatter(lines) ==
    IF lines = <<>> \/ lines[1] # "---"
    THEN {}
    ELSE ParseFrom(lines, 2, <<[indent |-> -1, path |-> "", n |-> 0]>>, {})

\* What the generator reads from the two documents.
sourceFrontmatter ==
    [en |-> ParseFrontmatter(frontmatter_en), root |-> ParseFrontmatter(frontmatter_root)]

\* The scalars of a page data's frontmatter object, each with its path.
FlattenFrontmatter(fm) ==
    {<<"layout", fm.layout>>,
     <<"hero.name", fm.hero.name>>,
     <<"hero.text", fm.hero.text>>,
     <<"hero.tagline", fm.hero.tagline>>,
     <<"hero.image.src", fm.hero.image.src>>,
     <<"hero.image.alt", fm.hero.image.alt>>}
    \cup UNION {LET at == "hero.actions[" \o ToString(i) \o "]."
                    a  == fm.hero.actions[i]
                IN  {<<at \o "theme", a.theme>>, <<at \o "text", a.text>>,
                     <<at \o "link", a.link>>} : i \in DOMAIN fm.hero.actions}
    \cup UNION {LET at == "features[" \o ToString(i) \o "]."
                    f  == fm.features[i]
                IN  {<<at \o "title", f.title>>, <<at \o "details", f.details>>,
                     <<at \o "icon", f.icon>>} : i \in DOMAIN fm.features}

----------------------------------------------------------------------------
(* The edit link of a page *)

\* s with its first occurrence of what replaced by with.
ReplaceFirst(s, what, with) ==
    LET i == IndexOf(s, what, 1)
    IN  IF i = 0
        THEN s
        ELSE SubSeq(s, 1, i - 1) \o with \o DropFirst(s, i + Len(what) - 1)

\* The edit URL of content file f under theme configuration tc: the pattern
\* with ":path" replaced by the file's path relative to docs/; none ("")
\* when the configuration holds no pattern.
EditUrl(tc, f) ==
    IF "editLink" \in DOMAIN tc /\ "pattern" \in DOMAIN tc.editLink
    THEN ReplaceFirst(tc.editLink.pattern, ":path", f)
    ELSE ""

----------------------------------------------------------------------------
(* Lesson 8 (models): callModelWithFailover *)

\* Longest list of fallbacks of a configuration.
MaxFallbacks == 2

ModelIds == {"claude-opus", "gpt-4", "gemini-pro"}

\* FailoverConfig values: a primary model and fallbacks in order.
FailoverConfigs ==
    [primary : ModelIds,
     fallbacks : UNION {[1..n -> ModelIds] : n \in 0..MaxFallbacks}]

Candidates_fallbacksFirst(config) == config.fallbacks \o <<config.primary>>

\* const models = [config.primary, ...config.fallbacks]
Candidates(config) == <<config.primary>> \o config.fallbacks

NoConfig == [primary |-> "", fallbacks |-> <<>>]

\* No call made yet.
FailoverIdle ==
    [status |-> "idle", config |-> NoConfig, models |-> <<>>, next |-> 1,
     calls |-> <<>>, result |-> ""]

\* callModelWithFailover(messages, config) is entered.
CallModelWithFailover(config) ==
    /\ failover.status = "idle"
    /\ failover' = [failover EXCEPT !.status = "running", !.config = config,
                                     !.models = Candidates(config)]
    /\ UNCHANGED notFailover

\* model.generate(messages) resolves: its response is returned.
GenerateResolves ==
    /\ failover.status = "running"
    /\ failover.next <= Len(failover.models)
    /\ LET model == failover.models[failover.next]
       IN  failover' = [failover EXCEPT
                            !.calls = Append(@, [model |-> model, ok |-> TRUE]),
                            !.status = "returned",
                            !.result = "response of " \o model]
    /\ UNCHANGED notFailover

\* model.generate(messages) rejects: the error is caught and the loop goes on.
GenerateRejects ==
    /\ failover.status = "running"
    /\ failover.next <= Len(failover.models)
    /\ LET model == failover.models[failover.next]
       IN  failover' = [failover EXCEPT
                            !.calls = Append(@, [model |-> model, ok |-> FALSE]),
                            !.next = @ + 1]
    /\ UNCHANGED notFailover

\* The loop is over: throw new Error("All models failed").
ThrowAllFailed ==
    /\ failover.status = "running"
    /\ failover.next > Len(failover.models)
    /\ failover' = [failover EXCEPT !.status = "threw", !.result = "All models failed"]
    /\ UNCHANGED notFailover

FailoverNext ==
    \/ \E config \in FailoverConfigs : CallModelWithFailover(config)
    \/ GenerateResolves
    \/ GenerateRejects
    \/ ThrowAllFailed

----------------------------------------------------------------------------
(* Lesson 8 (gateway.md): FailoverManager and CircuitBreaker *)

\* Clock steps of one run, each of half the breaker's timeout.
MaxClockSteps == 4

\* Failures one circuit records in one run.
MaxFailureCount == 6

failureThreshold == 5

timeout == 60000

\* getCandidateModels: the primary model, then the fallbacks of its
\* provider, without duplicates.
RECURSIVE Dedup(_, _)
Dedup(seq, seen) ==
    IF seq = <<>> THEN <<>>
    ELSE IF Head(seq) \in seen THEN Dedup(Tail(seq), seen)
    ELSE <<Head(seq)>> \o Dedup(Tail(seq), seen \cup {Head(seq)})

getCandidateModels(primaryModel) ==
    LET slash    == IndexOf(primaryModel, "/", 1)
        provider == IF slash = 0 THEN primaryModel ELSE SubSeq(primaryModel, 1, slash - 1)
        backups  == CASE provider = "openai" ->
                             <<"openai/gpt-4o-mini", "openai/gpt-3.5-turbo">>
                      [] provider = "anthropic" ->
                             <<"anthropic/claude-3-5-sonnet-20241022",
                               "anthropic/claude-3-sonnet-20240229">>
                      [] OTHER ->
                             <<"openai/gpt-4o", "anthropic/claude-3-5-sonnet-20241022">>
    IN  Dedup(<<primaryModel>> \o backups, {})

\* The requests made: request.model.
RequestModels == {"openai/gpt-4o-mini"}

BreakerModels == UNION {Range(getCandidateModels(m)) : m \in RequestModels}

\* Concurrent callers of the one FailoverManager.
Callers == {"c1", "c2"}

\* No entry in the states map.
NoCircuit == [state |-> "NONE", failureCount |-> 0, lastFailure |-> 0]

isTripped_ignoresTimeout(st, t) == st.state = "OPEN"

\* isTripped: whether the circuit st refuses a request at time t ...
isTripped(st, t) ==
    st.state = "OPEN" /\ t - st.lastFailure < timeout

\* ... and the circuit it leaves: an OPEN circuit whose timeout has passed
\* becomes HALF_OPEN.
AfterIsTripped(st, t) ==
    IF st.state = "OPEN" /\ t - st.lastFailure >= timeout
    THEN [st EXCEPT !.state = "HALF_OPEN"]
    ELSE st

recordFailure(st, t) ==
    LET n == st.failureCount + 1
    IN  [state |-> IF n >= failureThreshold
                   THEN "OPEN"
                   ELSE IF st.state = "NONE" THEN "CLOSED" ELSE st.state,
         failureCount |-> n,
         lastFailure |-> t]

reset == [state |-> "CLOSED", failureCount |-> 0, lastFailure |-> 0]

NoCall == [pc |-> "idle", candidates |-> <<>>, i |-> 1]

BreakerIdle ==
    /\ now = 0
    /\ states = [m \in BreakerModels |-> NoCircuit]
    /\ calls = [c \in Callers |-> NoCall]

\* Time passes.
ClockStep ==
    /\ now < MaxClockSteps * (timeout \div 2)
    /\ now' = now + timeout \div 2
    /\ UNCHANGED <<states, calls>>
    /\ UNCHANGED notBreaker

\* callModelWithFailover(request): the candidates are fetched.
StartCall(c, m) ==
    /\ calls[c].pc = "idle"
    /\ calls' = [calls EXCEPT ![c] = [pc |-> "loop", candidates |-> getCandidateModels(m),
                                      i |-> 1]]
    /\ UNCHANGED <<now, states>>
    /\ UNCHANGED notBreaker

\* The loop reaches a candidate: a tripped one is skipped, for any other the
\* call awaits the health check.
CheckCircuit(c) ==
    /\ calls[c].pc = "loop"
    /\ calls[c].i <= Len(calls[c].candidates)
    /\ LET candidate == calls[c].candidates[calls[c].i]
       IN  /\ states' = [states EXCEPT ![candidate] = AfterIsTripped(@, now)]
           /\ calls' = IF isTripped(states[candidate], now)
                       THEN [calls EXCEPT ![c].i = @ + 1]
                       ELSE [calls EXCEPT ![c].pc = "health"]
    /\ UNCHANGED now
    /\ UNCHANGED notBreaker

\* isHealthy resolves (performHealthCheck always answers true) and the
\* request is handed to router.routeRequest.
RouteRequest(c) ==
    /\ calls[c].pc = "health"
    /\ calls' = [calls EXCEPT ![c].pc = "routed"]
    /\ UNCHANGED <<now, states>>
    /\ UNCHANGED notBreaker

\* routeRequest resolves: the circuit is reset and the response returned.
RouteResolves(c) ==
    /\ calls[c].pc = "routed"
    /\ states' = [states EXCEPT ![calls[c].candidates[calls[c].i]] = reset]
    /\ calls' = [calls EXCEPT ![c] = NoCall]
    /\ UNCHANGED now
    /\ UNCHANGED notBreaker

\* routeRequest rejects: the failure is recorded; a fatal error is rethrown,
\* any other lets the loop go on.
RouteRejects(c, fatal) ==
    /\ calls[c].pc = "routed"
    /\ LET candidate == calls[c].candidates[calls[c].i]
       IN  /\ states[candidate].failureCount < MaxFailureCount
           /\ states' = [states EXCEPT ![candidate] = recordFailure(@, now)]
    /\ calls' = IF fatal
                THEN [calls EXCEPT ![c] = NoCall]
                ELSE [calls EXCEPT ![c].pc = "loop", ![c].i = @ + 1]
    /\ UNCHANGED now
    /\ UNCHANGED notBreaker

\* No candidate is left: the last error is thrown.
ThrowLastError(c) ==
    /\ calls[c].pc = "loop"
    /\ calls[c].i > Len(calls[c].candidates)
    /\ calls' = [calls EXCEPT ![c] = NoCall]
    /\ UNCHANGED <<now, states>>
    /\ UNCHANGED notBreaker

BreakerNext ==
    \/ ClockStep
    \/ \E c \in Callers, m \in RequestModels : StartCall(c, m)
    \/ \E c \in Callers : CheckCircuit(c)
    \/ \E c \in Callers : RouteRequest(c)
    \/ \E c \in Callers : RouteResolves(c)
    \/ \E c \in Callers, fatal \in BOOLEAN : RouteRejects(c, fatal)
    \/ \E c \in Callers : ThrowLastError(c)

----------------------------------------------------------------------------
(* Lesson 7 (memory): SessionStorageManager *)

\* options.maxCacheSize of the manager under study.
maxCacheSize == 2

\* getSession and saveSession calls of one run.
MaxOperations == 5

SessionIds == {"s1", "s2", "s3"}

CacheHas(c, id) == \E i \in DOMAIN c : c[i].sessionId = id

\* The eviction before an insertion: a full cache loses the first key of
\* cache.keys().
EvictOldest(c) ==
    IF Len(c) >= maxCacheSize /\ c # <<>> THEN Tail(c) ELSE c

OldestKey(c) ==
    IF Len(c) >= maxCacheSize /\ c # <<>> THEN Head(c).sessionId ELSE ""

\* cache.set(id, session): a key of the Map keeps its place, a new key goes
\* last.
CacheSet(c, id, session) ==
    IF CacheHas(c, id)
    THEN [i \in DOMAIN c |-> IF c[i].sessionId = id THEN session ELSE c[i]]
    ELSE Append(c, session)

\* The cached keys whose last getSession or saveSession is the oldest.
LeastRecentlyAccessed(c) ==
    {c[i].sessionId : i \in {j \in DOMAIN c :
        \A k \in DOMAIN c : accessedAt[c[j].sessionId] <= accessedAt[c[k].sessionId]}}

NoEviction == [key |-> "", lru |-> {}]

\* What an insertion into cache c evicts.
Eviction(c) ==
    IF OldestKey(c) = ""
    THEN evicted
    ELSE [key |-> OldestKey(c), lru |-> LeastRecentlyAccessed(c)]

StorageIdle ==
    /\ cache = <<>>
    /\ disk = [id \in SessionIds |-> 0]
    /\ date = 0
    /\ accessedAt = [id \in SessionIds |-> 0]
    /\ evicted = NoEviction

\* getSession of a cached session: lastAccessed is set, the Map is not
\* touched.
GetSessionHit(id) ==
    /\ date < MaxOperations
    /\ CacheHas(cache, id)
    /\ date' = date + 1
    /\ cache' = [i \in DOMAIN cache |->
                    IF cache[i].sessionId = id
                    THEN [cache[i] EXCEPT !.lastAccessed = date']
                    ELSE cache[i]]
    /\ accessedAt' = [accessedAt EXCEPT ![id] = date']
    /\ UNCHANGED <<disk, evicted>>
    /\ UNCHANGED notStorage

\* getSession of a session on disk only: it is read as stored and inserted,
\* after the eviction.
GetSessionLoad(id) ==
    /\ date < MaxOperations
    /\ ~CacheHas(cache, id)
    /\ disk[id] > 0
    /\ date' = date + 1
    /\ evicted' = Eviction(cache)
    /\ cache' = CacheSet(EvictOldest(cache), id,
                         [sessionId |-> id, lastAccessed |-> disk[id]])
    /\ accessedAt' = [accessedAt EXCEPT ![id] = date']
    /\ UNCHANGED disk
    /\ UNCHANGED notStorage

\* getSession of a session that is neither cached nor on disk: null.
GetSessionMissing(id) ==
    /\ date < MaxOperations
    /\ ~CacheHas(cache, id)
    /\ disk[id] = 0
    /\ date' = date + 1
    /\ UNCHANGED <<cache, disk, accessedAt, evicted>>
    /\ UNCHANGED notStorage

\* saveSession: the eviction, the insertion, the file.
SaveSession(id) ==
    /\ date < MaxOperations
    /\ date' = date + 1
    /\ evicted' = Eviction(cache)
    /\ cache' = CacheSet(EvictOldest(cache), id,
                         [sessionId |-> id, lastAccessed |-> date'])
    /\ disk' = [disk EXCEPT ![id] = date']
    /\ accessedAt' = [accessedAt EXCEPT ![id] = date']
    /\ UNCHANGED notStorage

\* deleteSession: out of the cache and off the disk.
DeleteSession(id) ==
    /\ CacheHas(cache, id) \/ disk[id] > 0
    /\ cache' = SelectSeq(cache, LAMBDA e : e.sessionId # id)
    /\ disk' = [disk EXCEPT ![id] = 0]
    /\ UNCHANGED <<date, accessedAt, evicted>>
    /\ UNCHANGED notStorage

StorageNext ==
    \/ \E id \in SessionIds : GetSessionHit(id)
    \/ \E id \in SessionIds : GetSessionLoad(id)
    \/ \E id \in SessionIds : GetSessionMissing(id)
    \/ \E id \in SessionIds : SaveSession(id)
    \/ \E id \in SessionIds : DeleteSession(id)

----------------------------------------------------------------------------
(* Lesson 9, security: BasicAuthenticationSystem sessions
   (docs/guide/security.md).  Time is Date.now() in milliseconds.  The
   session id is `sess_${Date.now()}_${random}`; it is modelled as a fresh
   id per createSession (the counter nextSessionId). *)

MaxSessions == 2
MaxAuthTicks == 4

sessionTtl == 24 * 60 * 60 * 1000

NoSession == [id |-> "none", expiresAt |-> -1]

generateSessionId(n) == "sess_" \o ToString(n)

SessionTokens == {generateSessionId(n) : n \in 1..MaxSessions}
AuthTokens == SessionTokens \cup {"forged"}

validateSession_noRefresh(sess, token, t) ==
    IF sess[token] = NoSession THEN [sessions |-> sess, result |-> NoSession]
    ELSE IF t > sess[token].expiresAt
         THEN [sessions |-> [sess EXCEPT ![token] = NoSession], result |-> NoSession]
         ELSE [sessions |-> sess, result |-> sess[token]]

\* validateSession: get; absent -> null; past expiresAt -> delete, null;
\* otherwise refresh expiresAt and return the session.
validateSession(sess, token, t) ==
    IF sess[token] = NoSession THEN [sessions |-> sess, result |-> NoSession]
    ELSE IF t > sess[token].expiresAt
         THEN [sessions |-> [sess EXCEPT ![token] = NoSession], result |-> NoSession]
         ELSE LET refreshed == [sess[token] EXCEPT !.expiresAt = t + sessionTtl]
              IN [sessions |-> [sess EXCEPT ![token] = refreshed], result |-> refreshed]

NoAuthCall == [op |-> "none", token |-> "none", at |-> 0, before |-> NoSession,
               result |-> NoSession, threw |-> FALSE]

AuthIdle ==
    /\ authNow = 0
    /\ authTicks = 0
    /\ sessions = [t \in AuthTokens |-> NoSession]
    /\ nextSessionId = 1
    /\ created = {}
    /\ revoked = {}
    /\ expiredFound = {}
    /\ lastAuth = NoAuthCall

\* the clock moves by one millisecond or by a whole session lifetime
AuthTick(d) ==
    /\ authTicks < MaxAuthTicks
    /\ authTicks' = authTicks + 1
    /\ authNow' = authNow + d
    /\ UNCHANGED <<sessions, nextSessionId, created, revoked, expiredFound, lastAuth>>
    /\ UNCHANGED notAuth

\* createSession with credentials that validateCredentials accepts
CreateSession ==
    /\ nextSessionId <= MaxSessions
    /\ LET sessionId == generateSessionId(nextSessionId)
           session == [id |-> sessionId, expiresAt |-> authNow + sessionTtl]
       IN /\ sessions' = [sessions EXCEPT ![sessionId] = session]
          /\ created' = created \cup {sessionId}
          /\ lastAuth' = [op |-> "createSession", token |-> sessionId, at |-> authNow,
                          before |-> sessions[sessionId], result |-> session,
                          threw |-> FALSE]
    /\ nextSessionId' = nextSessionId + 1
    /\ UNCHANGED <<authNow, authTicks, revoked, expiredFound>>
    /\ UNCHANGED notAuth

\* createSession with credentials that validateCredentials rejects
CreateSessionInvalid ==
    /\ lastAuth' = [NoAuthCall EXCEPT !.op = "createSession", !.at = authNow,
                                      !.threw = TRUE]
    /\ UNCHANGED <<authNow, authTicks, sessions, nextSessionId, created, revoked,
                   expiredFound>>
    /\ UNCHANGED notAuth

ValidateSession(token) ==
    LET r == validateSession(sessions, token, authNow)
    IN /\ sessions' = r.sessions
       /\ expiredFound' = IF sessions[token] # NoSession /\ r.sessions[token] = NoSession
                          THEN expiredFound \cup {token} ELSE expiredFound
       /\ lastAuth' = [op |-> "validateSession", token |-> token, at |-> authNow,
                       before |-> sessions[token], result |-> r.result,
                       threw |-> FALSE]
       /\ UNCHANGED <<authNow, authTicks, nextSessionId, created, revoked>>
       /\ UNCHANGED notAuth

\* revokeSession: delete; a token counts as revoked when it had been created
RevokeSession(token) ==
    /\ sessions' = [sessions EXCEPT ![token] = NoSession]
    /\ revoked' = revoked \cup ({token} \cap created)
    /\ lastAuth' = [op |-> "revokeSession", token |-> token, at |-> authNow,
                    before |-> sessions[token], result |-> NoSession,
                    threw |-> FALSE]
    /\ UNCHANGED <<authNow, authTicks, nextSessionId, created, expiredFound>>
    /\ UNCHANGED notAuth

AuthNext ==
    \/ \E d \in {1, sessionTtl} : AuthTick(d)
    \/ CreateSession
    \/ CreateSessionInvalid
    \/ \E token \in AuthTokens : ValidateSession(token)
    \/ \E token \in AuthTokens : RevokeSession(token)

----------------------------------------------------------------------------
(* Lesson 9, security: SecurityMonitor and its anomaly detectors
   (docs/guide/security.md).  Confidence is held in tenths (0.9 is 9). *)

MaxEvents == 6
MaxMonitorTicks == 2

maxLogSize == 10000
keptLogSize == 5000
bruteForceCount == 5
bruteForceWindow == 300000
alertConfidence == 7

MonitorUsers == {"alice", "bob"}
AlertCallbacks == {"cb1", "cb2"}
monitorTick == 150000

SetMax(S) == CHOOSE x \in S : \A y \in S : y <= x
SetMin(S) == CHOOSE x \in S : \A y \in S : x <= y

\* the events a caller logs, before id and timestamp are filled in
EventKinds ==
    {[type |-> "login_failure", source |-> "auth", userId |-> u, command |-> ""]
        : u \in MonitorUsers}
    \cup {[type |-> "command", source |-> "tool", userId |-> "alice",
           command |-> "rm -rf /tmp/x"]}

\* LoginAnomalyDetector.getTimeSpan: latest minus earliest timestamp
getTimeSpan(events) ==
    IF Len(events) < 2 THEN 0
    ELSE LET ts == {events[i].timestamp : i \in 1..Len(events)}
         IN SetMax(ts) - SetMin(ts)

\* LoginAnomalyDetector.analyze: one report per user with five or more
\* failures among `events` spanning less than five minutes
LoginAnomalyDetector_analyze(events) ==
    LET loginFailures == SelectSeq(events, LAMBDA e : e.type = "login_failure")
        users == {loginFailures[i].userId : i \in 1..Len(loginFailures)}
        userFailures(u) == SelectSeq(loginFailures, LAMBDA e : e.userId = u)
    IN {[eventId |-> userFailures(u)[Len(userFailures(u))].id,
         type |-> "threat",
         confidence |-> 9,
         description |-> "Potential brute force attack detected for user " \o u,
         suggestedAction |-> "block"]
          : u \in {v \in users : /\ Len(userFailures(v)) >= bruteForceCount
                                 /\ getTimeSpan(userFailures(v)) < bruteForceWindow}}

\* CommandAnomalyDetector.isSuspiciousCommand, the patterns with one blank
isSuspiciousCommand(command) ==
    \E p \in {"rm -rf", "chmod 777", "dd if=/dev/zero", "mkfs.", "shred -vf"} :
        IndexOf(command, p, 1) > 0

CommandAnomalyDetector_analyze(events) ==
    LET toolEvents == SelectSeq(events, LAMBDA e : e.source = "tool")
    IN {[eventId |-> toolEvents[i].id,
         type |-> "policy_violation",
         confidence |-> 8,
         description |-> "Suspicious command detected: " \o toolEvents[i].command,
         suggestedAction |-> "block"]
          : i \in {j \in 1..Len(toolEvents) :
                      /\ toolEvents[j].command # ""
                      /\ isSuspiciousCommand(toolEvents[j].command)}}

\* SecurityMonitor.detectAnomalies(events): the reports of every detector;
\* AccessPatternDetector and DataAccessDetector return none
detectAnomalies(events) ==
    LoginAnomalyDetector_analyze(events) \cup CommandAnomalyDetector_analyze(events)

getSuggestedResponses(anomaly) ==
    IF anomaly.suggestedAction = "block"
    THEN <<"Block user/IP", "Review access logs", "Notify administrators">>
    ELSE IF anomaly.suggestedAction = "warn"
    THEN <<"Monitor closely", "Review user activity", "Consider access restrictions">>
    ELSE IF anomaly.suggestedAction = "investigate"
    THEN <<"Investigate thoroughly", "Check related accounts", "Review security policies">>
    ELSE <<"Monitor activity", "Document incident">>

generateAlerts(anomalies) ==
    {[severity |-> IF n.confidence > 9 THEN "critical" ELSE "warning",
      title |-> "Security Anomaly Detected: " \o n.type,
      description |-> n.description,
      affectedResources |-> <<n.eventId>>,
      suggestedResponse |-> getSuggestedResponses(n),
      anomaly |-> n]
        : n \in {r \in anomalies : r.confidence > alertConfidence}}

NoLogCall == [event |-> [id |-> "none", type |-> "none", source |-> "none",
                         userId |-> "none", command |-> "", timestamp |-> 0],
              anomalies |-> {}, alerts |-> {}, delivered |-> <<>>]

MonitorIdle ==
    /\ monitorNow = 0
    /\ monitorTicks = 0
    /\ eventLog = <<>>
    /\ logged = 0
    /\ alertCallbacks = {}
    /\ lastLog = NoLogCall

MonitorTick ==
    /\ monitorTicks < MaxMonitorTicks
    /\ monitorTicks' = monitorTicks + 1
    /\ monitorNow' = monitorNow + monitorTick
    /\ UNCHANGED <<eventLog, logged, alertCallbacks, lastLog>>
    /\ UNCHANGED notMonitor

Subscribe(cb) ==
    /\ cb \notin alertCallbacks
    /\ alertCallbacks' = alertCallbacks \cup {cb}
    /\ UNCHANGED <<monitorNow, monitorTicks, eventLog, logged, lastLog>>
    /\ UNCHANGED notMonitor

\* logEvent: push, trim, detect on [event], then handleAlert calls every
\* subscribed callback with every alert (lastLog.delivered)
LogEvent(kind) ==
    /\ logged < MaxEvents
    /\ LET event == [id |-> "e" \o ToString(logged + 1), type |-> kind.type,
                     source |-> kind.source, userId |-> kind.userId,
                     command |-> kind.command, timestamp |-> monitorNow]
           pushedLog == Append(eventLog, event)
           trimmed == IF Len(pushedLog) > maxLogSize
                      THEN SubSeq(pushedLog, Len(pushedLog) - keptLogSize + 1,
                                  Len(pushedLog))
                      ELSE pushedLog
           anomalies == detectAnomalies(<<event>>)
           alerts == generateAlerts(anomalies)
       IN /\ eventLog' = trimmed
          /\ lastLog' = [event |-> event, anomalies |-> anomalies,
                         alerts |-> alerts,
                         delivered |-> [cb \in alertCallbacks |-> alerts]]
    /\ logged' = logged + 1
    /\ UNCHANGED <<monitorNow, monitorTicks, alertCallbacks>>
    /\ UNCHANGED notMonitor

MonitorNext ==
    \/ MonitorTick
    \/ \E cb \in AlertCallbacks : Subscribe(cb)
    \/ \E kind \in EventKinds : LogEvent(kind)

----------------------------------------------------------------------------
(* Lesson 7, memory: ContextCompressor (unnamed/part_004).  The compressor
   is built with its default options; message contents in the model stay
   under 500 characters, where generateContextSummary returns the joined
   contents. *)

MaxCompactCalls == 3

maxTokens == 8000
summaryThresholdTenths == 8
defaultPreserveRecent == 10

\* Array.prototype.slice(start, end) on a 1-based sequence
RelativeIndex(len, i) ==
    IF i < 0 THEN (IF len + i < 0 THEN 0 ELSE len + i)
    ELSE (IF i > len THEN len ELSE i)

slice(arr, start, end) ==
    SubSeq(arr, RelativeIndex(Len(arr), start) + 1, RelativeIndex(Len(arr), end))

\* slice(start) with the end left out
sliceFrom(arr, start) ==
    SubSeq(arr, RelativeIndex(Len(arr), start) + 1, Len(arr))

Message(i) ==
    [id |-> "msg-" \o ToString(i), role |-> "user",
     content |-> "m" \o ToString(i), timestamp |-> i]

RECURSIVE JoinContents(_, _)
JoinContents(messages, sep) ==
    IF messages = <<>> THEN ""
    ELSE IF Len(messages) = 1 THEN messages[1].content
    ELSE messages[1].content \o sep \o JoinContents(Tail(messages), sep)

generateContextSummary(messages) == JoinContents(messages, "\n")

\* Math.ceil(text.length / 4)
calculateTokenCount(messages) ==
    (Len(JoinContents(messages, " ")) + 3) \div 4

HistoryLengths == {0, 1, 2, 3, 12}
StoredTokenCounts == {6399, 6400}
PreserveOptions ==
    [given : {FALSE}, value : {0}] \cup [given : {TRUE}, value : 0..3]
SummarizeOptions == {"undefined", "true", "false"}

NoSessionMemory == [exists |-> FALSE, history |-> <<>>, tokenCount |-> 0,
                    compressionCount |-> 0]

NoCompactResult == [compressed |-> FALSE, reason |-> "", originalTokenCount |-> 0,
                    newTokenCount |-> 0, summaryAdded |-> FALSE]

NoCompactCall == [called |-> FALSE, threw |-> FALSE,
                  preserveRecent |-> [given |-> FALSE, value |-> 0],
                  summarizeOld |-> "undefined", before |-> NoSessionMemory,
                  savesBefore |-> 0, result |-> NoCompactResult]

\* the history compactSession builds from a stored session
compactedHistory(session, preserve, summarizeOld, t) ==
    LET preserveRecent == IF preserve.given THEN preserve.value
                          ELSE defaultPreserveRecent
        recentMessages == sliceFrom(session.history, -preserveRecent)
        olderMessages == slice(session.history, 0, -preserveRecent)
    IN IF olderMessages # <<>> /\ summarizeOld # "false"
       THEN [history |->
                <<[id |-> "summary-" \o ToString(t), role |-> "system",
                   content |-> "Previous conversation summary: "
                                  \o generateContextSummary(olderMessages),
                   timestamp |-> SetMin({olderMessages[i].timestamp
                                           : i \in 1..Len(olderMessages)})]>>
                \o recentMessages,
             summaryAdded |-> TRUE]
       ELSE [history |-> recentMessages, summaryAdded |-> FALSE]

CompactIdle ==
    /\ memory = NoSessionMemory
    /\ memorySaves = 0
    /\ compactCalls = 0
    /\ lastCompact = NoCompactCall

\* the application saves a session of n messages under the session id
StoreSession(n, tokens) ==
    /\ lastCompact.called \/ memory = NoSessionMemory
    /\ compactCalls < MaxCompactCalls
    /\ memory' = [exists |-> TRUE, history |-> [i \in 1..n |-> Message(i)],
                  tokenCount |-> tokens, compressionCount |-> 0]
    /\ lastCompact' = NoCompactCall
    /\ UNCHANGED <<memorySaves, compactCalls>>
    /\ UNCHANGED notCompact

CompactSessionNotFound(preserve, summarizeOld) ==
    /\ ~memory.exists
    /\ compactCalls < MaxCompactCalls
    /\ compactCalls' = compactCalls + 1
    /\ lastCompact' = [NoCompactCall EXCEPT !.called = TRUE, !.threw = TRUE,
                                            !.preserveRecent = preserve,
                                            !.summarizeOld = summarizeOld,
                                            !.savesBefore = memorySaves]
    /\ UNCHANGED <<memory, memorySaves>>
    /\ UNCHANGED notCompact

CompactSessionBelowThreshold(preserve, summarizeOld) ==
    /\ memory.exists
    /\ memory.tokenCount * 10 < maxTokens * summaryThresholdTenths
    /\ compactCalls < MaxCompactCalls
    /\ compactCalls' = compactCalls + 1
    /\ lastCompact' = [called |-> TRUE, threw |-> FALSE,
                       preserveRecent |-> preserve, summarizeOld |-> summarizeOld,
                       before |-> memory, savesBefore |-> memorySaves,
                       result |-> [compressed |-> FALSE,
                                   reason |-> "Token count below compression threshold",
                                   originalTokenCount |-> memory.tokenCount,
                                   newTokenCount |-> memory.tokenCount,
                                   summaryAdded |-> FALSE]]
    /\ UNCHANGED <<memory, memorySaves>>
    /\ UNCHANGED notCompact

CompactSessionCompress(preserve, summarizeOld) ==
    /\ memory.exists
    /\ ~(memory.tokenCount * 10 < maxTokens * summaryThresholdTenths)
    /\ compactCalls < MaxCompactCalls
    /\ compactCalls' = compactCalls + 1
    /\ LET c == compactedHistory(memory, preserve, summarizeOld, compactCalls)
           newSession == [memory EXCEPT
                             !.history = c.history,
                             !.tokenCount = calculateTokenCount(c.history),
                             !.compressionCount = memory.compressionCount + 1]
       IN /\ memory' = newSession
          /\ lastCompact' = [called |-> TRUE, threw |-> FALSE,
                             preserveRecent |-> preserve,
                             summarizeOld |-> summarizeOld,
                             before |-> memory, savesBefore |-> memorySaves,
                             result |-> [compressed |-> TRUE,
                                         reason |-> IF c.summaryAdded
                                                    THEN "Context summary applied"
                                                    ELSE "Messages removed",
                                         originalTokenCount |-> memory.tokenCount,
                                         newTokenCount |-> newSession.tokenCount,
                                         summaryAdded |-> c.summaryAdded]]
    /\ memorySaves' = memorySaves + 1
    /\ UNCHANGED notCompact

CompactNext ==
    \/ \E n \in HistoryLengths, tokens \in StoredTokenCounts : StoreSession(n, tokens)
    \/ \E p \in PreserveOptions, s \in SummarizeOptions :
          \/ CompactSessionNotFound(p, s)
          \/ CompactSessionBelowThreshold(p, s)
          \/ CompactSessionCompress(p, s)

----------------------------------------------------------------------------
(* Lesson 4, agent: sandbox tool gating (unnamed/part_004).  A list is
   null or an array, held as [isNull, items]. *)

NullList == [isNull |-> TRUE, items |-> {}]
List(items) == [isNull |-> FALSE, items |-> items]

ToolNames == {"bash", "read", "browser", "cron", "message"}
SessionKeys == {"main", "main:dm", "mainframe", "agent:ops"}

\* config.allowlist / config.denylist: left out (null here) or an array
ConfigLists == {NullList, List({}), List({"read"}), List({"read", "browser"})}
SandboxConfigs ==
    [mode : {"undefined", "off", "non-main"}, allowlist : ConfigLists,
     denylist : ConfigLists]

applySandboxRules(sessionKey, config) ==
    LET isMainSession == sessionKey = "main" \/ StartsWith(sessionKey, "main:")
    IN IF config.mode = "non-main" /\ ~isMainSession
       THEN [allowlist |-> IF ~config.allowlist.isNull THEN config.allowlist
                           ELSE List({"bash", "process", "read", "write", "edit"}),
             denylist |-> IF ~config.denylist.isNull THEN config.denylist
                          ELSE List({"browser", "canvas", "nodes", "cron"})]
       ELSE [allowlist |-> NullList, denylist |-> NullList]

checkToolAccess_allowlistOnly(toolName, sandboxConfig) ==
    IF ~sandboxConfig.allowlist.isNull /\ toolName \notin sandboxConfig.allowlist.items
    THEN FALSE
    ELSE TRUE

checkToolAccess(toolName, sandboxConfig) ==
    IF ~sandboxConfig.allowlist.isNull /\ toolName \notin sandboxConfig.allowlist.items
    THEN FALSE
    ELSE IF ~sandboxConfig.denylist.isNull /\ toolName \in sandboxConfig.denylist.items
    THEN FALSE
    ELSE TRUE

NoSessionContext == [sessionKey |-> "none", applied |-> FALSE, mode |-> "undefined",
                     sandbox |-> [allowlist |-> NullList, denylist |-> NullList]]
NoToolCall == [called |-> FALSE, toolName |-> "none", outcome |-> "none"]

SandboxIdle ==
    /\ sessionContext = NoSessionContext
    /\ toolCall = NoToolCall

\* a session whose sandbox comes from applySandboxRules
OpenSession(sessionKey, config) ==
    /\ sessionContext' = [sessionKey |-> sessionKey, applied |-> TRUE,
                          mode |-> config.mode,
                          sandbox |-> applySandboxRules(sessionKey, config)]
    /\ toolCall' = NoToolCall
    /\ UNCHANGED notSandbox

\* a session whose sandbox was put together some other way
OpenSessionWith(sessionKey, allowlist, denylist) ==
    /\ sessionContext' = [sessionKey |-> sessionKey, applied |-> FALSE,
                          mode |-> "undefined",
                          sandbox |-> [allowlist |-> allowlist, denylist |-> denylist]]
    /\ toolCall' = NoToolCall
    /\ UNCHANGED notSandbox

\* secureToolExecution: throw when access is refused, else executeTool
SecureToolExecution(toolName) ==
    /\ sessionContext # NoSessionContext
    /\ toolCall' = [called |-> TRUE, toolName |-> toolName,
                    outcome |-> IF checkToolAccess(toolName, sessionContext.sandbox)
                                THEN "executed" ELSE "threw"]
    /\ UNCHANGED sessionContext
    /\ UNCHANGED notSandbox

SandboxNext ==
    \/ \E k \in SessionKeys, c \in SandboxConfigs : OpenSession(k, c)
    \/ \E k \in SessionKeys, al \in ConfigLists, dl \in ConfigLists :
          OpenSessionWith(k, al, dl)
    \/ \E t \in ToolNames : SecureToolExecution(t)

----------------------------------------------------------------------------
(* Lesson 6, skills: SkillRegistry and SkillLifecycleManager
   (docs/guide/skills.md).  A skill id is name@version.  The lesson calls
   checkDependenciesEnabled without showing it; it is taken to say whether
   every declared dependency is in activeSkills. *)

\* the skill definitions found on disk, by id, with their dependencies
SkillDefs ==
    [id \in {"base@1.0.0", "report@1.0.0", "export@1.0.0", "notes@1.0.0"} |->
        IF id = "report@1.0.0" THEN {"base@1.0.0"}
        ELSE IF id = "export@1.0.0" THEN {"report@1.0.0", "notes@1.0.0"}
        ELSE {}]

SkillIds == DOMAIN SkillDefs

\* SkillRegistry.verifyDependencies
verifyDependencies(registered, id) == SkillDefs[id] \subseteq registered

checkDependenciesEnabled(active, id) == SkillDefs[id] \subseteq active

NoSkillCall == [op |-> "none", skillId |-> "none", result |-> "none"]

SkillsIdle ==
    /\ skills = {}
    /\ activeSkills = {}
    /\ skillCall = NoSkillCall

\* registerSkill: false when already registered or a dependency is missing
RegisterSkill(id) ==
    /\ skills' = IF id \notin skills /\ verifyDependencies(skills, id)
                 THEN skills \cup {id} ELSE skills
    /\ skillCall' = [op |-> "registerSkill", skillId |-> id,
                     result |-> IF id \notin skills /\ verifyDependencies(skills, id)
                                THEN "true" ELSE "false"]
    /\ UNCHANGED activeSkills
    /\ UNCHANGED notSkills

\* enableSkill; initialized says whether initializeSkill returned true
EnableSkill(id, initialized) ==
    /\ IF id \notin skills
       THEN /\ skillCall' = [op |-> "enableSkill", skillId |-> id,
                             result |-> "threw: Skill not found"]
            /\ UNCHANGED activeSkills
       ELSE IF ~checkDependenciesEnabled(activeSkills, id)
       THEN /\ skillCall' = [op |-> "enableSkill", skillId |-> id,
                             result |-> "threw: Required dependencies not enabled"]
            /\ UNCHANGED activeSkills
       ELSE IF initialized
       THEN /\ activeSkills' = activeSkills \cup {id}
            /\ skillCall' = [op |-> "enableSkill", skillId |-> id, result |-> "true"]
       ELSE /\ skillCall' = [op |-> "enableSkill", skillId |-> id, result |-> "false"]
            /\ UNCHANGED activeSkills
    /\ UNCHANGED skills
    /\ UNCHANGED notSkills

\* disableSkill: cleanup, then delete from activeSkills
DisableSkill(id) ==
    /\ activeSkills' = activeSkills \ {id}
    /\ skillCall' = [op |-> "disableSkill", skillId |-> id, result |-> "true"]
    /\ UNCHANGED skills
    /\ UNCHANGED notSkills

SkillsNext ==
    \/ \E id \in SkillIds : RegisterSkill(id)
    \/ \E id \in SkillIds, initialized \in BOOLEAN : EnableSkill(id, initialized)
    \/ \E id \in SkillIds : DisableSkill(id)

----------------------------------------------------------------------------
(* Lesson 10, deployment: ResourceManager (docs/guide/security.md).  An
   acquireResource call is suspended once, at `await getSystemStatus()`;
   from its resumption to its return it runs without interruption. *)

maxConcurrentRuns == 2

ResourceIds == {"r1", "r2", "r3"}
ResourceTypes == {"agent", "browser"}
Acquirers == {"a1", "a2"}

NoAcquire == [pc |-> "idle", type |-> "none", id |-> "none"]
NoAcquireReturn == [called |-> FALSE, caller |-> "none", type |-> "none",
                    id |-> "none", result |-> FALSE, changed |-> FALSE]

activeOfType(resources, type) ==
    Cardinality({id \in ResourceIds : resources[id] = type})

limitReached_above(type, count) ==
    type = "agent" /\ count > maxConcurrentRuns

\* type === 'agent' && activeOfType >= config.agents.maxConcurrentRuns
limitReached(type, count) ==
    type = "agent" /\ count >= maxConcurrentRuns

ResourcesIdle ==
    /\ activeResources = [id \in ResourceIds |-> "none"]
    /\ acquiring = [c \in Acquirers |-> NoAcquire]
    /\ acquireReturn = NoAcquireReturn

\* acquireResource is called and waits for getSystemStatus
AcquireResource(c, type, id) ==
    /\ acquiring[c].pc = "idle"
    /\ acquiring' = [acquiring EXCEPT ![c] = [pc |-> "getSystemStatus",
                                              type |-> type, id |-> id]]
    /\ UNCHANGED <<activeResources, acquireReturn>>
    /\ UNCHANGED notResources

\* the call resumes: resource check, limit check, set, return
AcquireResumes(c, sufficient) ==
    /\ acquiring[c].pc = "getSystemStatus"
    /\ LET type == acquiring[c].type
           id == acquiring[c].id
           granted == sufficient
                        /\ ~limitReached(type, activeOfType(activeResources, type))
           after == IF granted THEN [activeResources EXCEPT ![id] = type]
                    ELSE activeResources
       IN /\ activeResources' = after
          /\ acquireReturn' = [called |-> TRUE, caller |-> c, type |-> type,
                               id |-> id, result |-> granted,
                               changed |-> after # activeResources]
    /\ acquiring' = [acquiring EXCEPT ![c] = NoAcquire]
    /\ UNCHANGED notResources

ReleaseResource(id) ==
    /\ activeResources' = [activeResources EXCEPT ![id] = "none"]
    /\ UNCHANGED <<acquiring, acquireReturn>>
    /\ UNCHANGED notResources

ResourcesNext ==
    \/ \E c \in Acquirers, type \in ResourceTypes, id \in ResourceIds :
          AcquireResource(c, type, id)
    \/ \E c \in Acquirers, sufficient \in BOOLEAN : AcquireResumes(c, sufficient)
    \/ \E id \in ResourceIds : ReleaseResource(id)

----------------------------------------------------------------------------
(* Lesson 4, agent: the attempt loop of runEmbeddedPiAgent
   (unnamed/part_004).  advanceAuthProfile and lastProfileId are used by the
   loop and shown nowhere: advanceAuthProfile is taken to move to the next
   auth profile and say whether there was one, lastProfileId to be set when
   the run has an auth profile. *)

MaxProfiles == 2

\* what runEmbeddedAttempt can report
AttemptOutcomes ==
    [promptError : {"none", "overflow", "failover", "other"},
     aborted : BOOLEAN, timedOut : BOOLEAN, failoverFailure : BOOLEAN]

NoAttempt == [promptError |-> "none", aborted |-> FALSE, timedOut |-> FALSE,
              failoverFailure |-> FALSE]

AgentIdleRun ==
    [pc |-> "idle", profiles |-> 0, profileIndex |-> 0,
     overflowCompactionAttempted |-> FALSE, attemptedBefore |-> FALSE,
     compactions |-> 0, overflowFailures |-> 0, lastAttempt |-> NoAttempt,
     lastCompaction |-> "none", result |-> "none"]

\* promptError && !aborted && isContextOverflowError(errorText)
failsWithOverflow(attempt) ==
    attempt.promptError = "overflow" /\ ~attempt.aborted

advanceAuthProfile(r) == r.profileIndex + 1 < r.profiles

onContextOverflow_noFlag(r) ==
    IF ~r.overflowCompactionAttempted
    THEN [r EXCEPT !.pc = "compact"]
    ELSE [r EXCEPT !.pc = "done", !.result = "context-overflow"]

\* the overflow branch: compact once, else return the error payload
onContextOverflow(r) ==
    IF ~r.overflowCompactionAttempted
    THEN [r EXCEPT !.overflowCompactionAttempted = TRUE, !.pc = "compact"]
    ELSE [r EXCEPT !.pc = "done", !.result = "context-overflow"]

\* the rest of the loop body: profile failover, else return the payloads
afterPromptError(r, attempt) ==
    IF attempt.promptError = "failover" /\ ~attempt.aborted /\ advanceAuthProfile(r)
    THEN [r EXCEPT !.profileIndex = r.profileIndex + 1]
    ELSE IF (attempt.failoverFailure \/ attempt.timedOut) /\ r.profiles > 0
              /\ advanceAuthProfile(r)
    THEN [r EXCEPT !.profileIndex = r.profileIndex + 1]
    ELSE [r EXCEPT !.pc = "done", !.result = "payloads"]

AgentIdle == run = AgentIdleRun

StartRun(profiles) ==
    /\ run.pc = "idle"
    /\ run' = [AgentIdleRun EXCEPT !.pc = "attempt", !.profiles = profiles]
    /\ UNCHANGED notAgent

\* one turn of the loop: runEmbeddedAttempt returns and is handled
RunAttempt(attempt) ==
    /\ run.pc = "attempt"
    /\ LET seen == [run EXCEPT
                       !.lastAttempt = attempt,
                       !.attemptedBefore = run.overflowCompactionAttempted,
                       !.overflowFailures = IF failsWithOverflow(attempt)
                                            THEN run.overflowFailures + 1
                                            ELSE run.overflowFailures]
       IN run' = IF failsWithOverflow(attempt) THEN onContextOverflow(seen)
                 ELSE afterPromptError(seen, attempt)
    /\ UNCHANGED notAgent

\* compactEmbeddedPiSessionDirect returns
CompactionReturns(compacted) ==
    /\ run.pc = "compact"
    /\ run' = IF compacted
              THEN [run EXCEPT !.pc = "attempt", !.compactions = run.compactions + 1,
                               !.lastCompaction = "compacted"]
              ELSE [run EXCEPT !.pc = "done", !.compactions = run.compactions + 1,
                               !.lastCompaction = "not compacted",
                               !.result = "context-overflow"]
    /\ UNCHANGED notAgent

AgentNext ==
    \/ \E profiles \in 0..MaxProfiles : StartRun(profiles)
    \/ \E attempt \in AttemptOutcomes : RunAttempt(attempt)
    \/ \E compacted \in BOOLEAN : CompactionReturns(compacted)

----------------------------------------------------------------------------
(* Lesson 3, channels: outbound.resolveTarget of the WhatsApp channel
   (unnamed/part_002).  null and undefined are the empty string.
   normalizeWhatsAppTarget and isWhatsAppGroupJid are used and shown
   nowhere: a group JID is taken to end in @g.us and to normalize to
   itself, any other target to normalize to + and its digits, or to null
   when it has no digit. *)

MaxAllowFrom == 2

RECURSIVE trim(_)
trim(s) ==
    IF s = "" THEN ""
    ELSE IF SubSeq(s, 1, 1) = " " THEN trim(DropFirst(s, 1))
    ELSE IF SubSeq(s, Len(s), Len(s)) = " " THEN trim(SubSeq(s, 1, Len(s) - 1))
    ELSE s

RECURSIVE DigitsOf(_)
DigitsOf(s) ==
    IF s = "" THEN ""
    ELSE (IF SubSeq(s, 1, 1) \in {"0", "1", "2", "3", "4", "5", "6", "7", "8", "9"}
          THEN SubSeq(s, 1, 1) ELSE "") \o DigitsOf(DropFirst(s, 1))

isWhatsAppGroupJid(s) == EndsWith(s, "@g.us") /\ Len(s) > 5

normalizeWhatsAppTarget(s) ==
    IF isWhatsAppGroupJid(s) THEN s
    ELSE IF DigitsOf(s) = "" THEN ""
    ELSE "+" \o DigitsOf(s)

missingTargetError ==
    "WhatsApp: <E.164|group JID> or channels.whatsapp.allowFrom[0]"

\* (allowFrom ?? []).map(trim).filter(Boolean)
allowListRaw(allowFrom) ==
    SelectSeq([i \in 1..Len(allowFrom) |-> trim(allowFrom[i])], LAMBDA x : x # "")

\* without "*", normalized, nulls dropped
normalizedAllowList(allowFrom) ==
    LET named == SelectSeq(allowListRaw(allowFrom), LAMBDA x : x # "*")
    IN SelectSeq([i \in 1..Len(named) |-> normalizeWhatsAppTarget(named[i])],
                 LAMBDA x : x # "")

Target(to) == [ok |-> TRUE, to |-> to, error |-> ""]
NoTarget == [ok |-> FALSE, to |-> "", error |-> missingTargetError]

resolveTarget_ignoresAllowList(to, allowFrom, mode) ==
    LET trimmed == trim(to)
        allowList == normalizedAllowList(allowFrom)
        normalizedTo == normalizeWhatsAppTarget(trimmed)
    IN IF trimmed # ""
       THEN IF normalizedTo = ""
            THEN IF mode \in {"implicit", "heartbeat"} /\ Len(allowList) > 0
                 THEN Target(allowList[1])
                 ELSE NoTarget
            ELSE Target(normalizedTo)
       ELSE IF Len(allowList) > 0 THEN Target(allowList[1]) ELSE NoTarget

resolveTarget(to, allowFrom, mode) ==
    LET trimmed == trim(to)
        hasWildcard == "*" \in Range(allowListRaw(allowFrom))
        allowList == normalizedAllowList(allowFrom)
        normalizedTo == normalizeWhatsAppTarget(trimmed)
    IN IF trimmed # ""
       THEN IF normalizedTo = ""
            THEN IF mode \in {"implicit", "heartbeat"} /\ Len(allowList) > 0
                 THEN Target(allowList[1])
                 ELSE NoTarget
            ELSE IF isWhatsAppGroupJid(normalizedTo) THEN Target(normalizedTo)
            ELSE IF mode \in {"implicit", "heartbeat"}
                 THEN IF hasWildcard \/ Len(allowList) = 0 THEN Target(normalizedTo)
                      ELSE IF normalizedTo \in Range(allowList) THEN Target(normalizedTo)
                      ELSE Target(allowList[1])
                 ELSE Target(normalizedTo)
       ELSE IF Len(allowList) > 0 THEN Target(allowList[1]) ELSE NoTarget

ToInputs == {"", "  ", "+1 555 0100", " 15550200", "120363@g.us", "support"}
AllowFromEntries == {"*", " +15550100", "1 555 0300 ", "", "nobody"}
AllowFromInputs ==
    UNION {[1..n -> AllowFromEntries] : n \in 0..MaxAllowFrom}
TargetModes == {"implicit", "heartbeat", "explicit"}

NoResolve == [called |-> FALSE, to |-> "", allowFrom |-> <<>>, mode |-> "explicit",
              result |-> NoTarget]

ChannelIdle == resolved = NoResolve

\* resolveTarget keeps no state: one call from rest shows every case
ResolveTarget(to, allowFrom, mode) ==
    /\ ~resolved.called
    /\ resolved' = [called |-> TRUE, to |-> to, allowFrom |-> allowFrom,
                    mode |-> mode, result |-> resolveTarget(to, allowFrom, mode)]
    /\ UNCHANGED notChannel

ChannelNext ==
    \E to \in ToInputs, allowFrom \in AllowFromInputs, mode \in TargetModes :
        ResolveTarget(to, allowFrom, mode)

----------------------------------------------------------------------------
(* Lesson 9, security: ProcessSandboxSystem.runInSandbox
   (docs/guide/security.md).  The callbacks of one run are the steps: the
   child's data and close events, the timeout timer, the kill timer set by
   the timeout.  No timer is ever cleared, and child.pid keeps its value
   after the child has exited. *)

MaxChunks == 2

defaultCommandTimeout == 30000

\* command.timeout: 0 when left out
CommandTimeouts == {0, 5000}
ExitCodes == {0, 1}

NoCommandResult == [success |-> FALSE, stdout |-> 0, stderr |-> "", exitCode |-> 0,
                    executionTimeMs |-> 0, error |-> ""]

NoProc == [pc |-> "idle", timeout |-> 0, pid |-> FALSE, closed |-> FALSE,
           stdout |-> 0, timer |-> "none", killTimer |-> "none",
           first |-> "none", settledBy |-> "none", result |-> NoCommandResult,
           signals |-> {}]

ProcIdle == proc = NoProc

\* validateCommand refuses the command: the failure result, nothing spawned
RunRefused(commandTimeout) ==
    /\ proc.pc = "idle"
    /\ proc' = [NoProc EXCEPT
                   !.pc = "returned", !.timeout = commandTimeout,
                   !.settledBy = "policy",
                   !.result = [NoCommandResult EXCEPT
                                  !.stderr = "Command not allowed by sandbox policy",
                                  !.exitCode = 1, !.error = "Command not allowed"]]
    /\ UNCHANGED notProc

\* the command is spawned (pid set, unless spawning failed) and the timer set
RunInSandbox(commandTimeout, spawned) ==
    /\ proc.pc = "idle"
    /\ proc' = [NoProc EXCEPT
                   !.pc = "running",
                   !.timeout = IF commandTimeout # 0 THEN commandTimeout
                               ELSE defaultCommandTimeout,
                   !.pid = spawned, !.timer = "set"]
    /\ UNCHANGED notProc

\* child.stdout 'data'
StdoutData ==
    /\ proc.pc = "running"
    /\ ~proc.closed
    /\ proc.stdout < MaxChunks
    /\ proc' = [proc EXCEPT !.stdout = proc.stdout + 1]
    /\ UNCHANGED notProc

\* child 'close': resolve with the child's result (a settled promise stays)
ChildCloses(code) ==
    /\ proc.pc = "running"
    /\ ~proc.closed
    /\ proc' = [proc EXCEPT
                   !.closed = TRUE,
                   !.first = IF proc.first = "none" THEN "close" ELSE proc.first,
                   !.settledBy = IF proc.settledBy = "none" THEN "close"
                                 ELSE proc.settledBy,
                   !.result = IF proc.settledBy = "none"
                              THEN [success |-> code = 0, stdout |-> proc.stdout,
                                    stderr |-> "", exitCode |-> code,
                                    executionTimeMs |-> 0, error |-> ""]
                              ELSE proc.result]
    /\ UNCHANGED notProc

\* the timeout timer: SIGTERM and the kill timer when child.pid is set, resolve
TimeoutFires ==
    /\ proc.pc = "running"
    /\ proc.timer = "set"
    /\ proc' = [proc EXCEPT
                   !.timer = "fired",
                   !.signals = IF proc.pid
                               THEN proc.signals \cup
                                       {[signal |-> "SIGTERM", afterClose |-> proc.closed,
                                         closedFirst |-> proc.first = "close"]}
                               ELSE proc.signals,
                   !.killTimer = IF proc.pid THEN "set" ELSE "none",
                   !.first = IF proc.first = "none" THEN "timeout" ELSE proc.first,
                   !.settledBy = IF proc.settledBy = "none" THEN "timeout"
                                 ELSE proc.settledBy,
                   !.result = IF proc.settledBy = "none"
                              THEN [success |-> FALSE, stdout |-> proc.stdout,
                                    stderr |-> "Command timed out", exitCode |-> 124,
                                    executionTimeMs |-> proc.timeout,
                                    error |-> "Command timed out"]
                              ELSE proc.result]
    /\ UNCHANGED notProc

\* the kill timer, 5 seconds after the timeout: SIGKILL when child.pid is set
KillTimerFires ==
    /\ proc.pc = "running"
    /\ proc.killTimer = "set"
    /\ proc' = [proc EXCEPT
                   !.killTimer = "fired",
                   !.signals = IF proc.pid
                               THEN proc.signals \cup
                                       {[signal |-> "SIGKILL", afterClose |-> proc.closed,
                                         closedFirst |-> proc.first = "close"]}
                               ELSE proc.signals]
    /\ UNCHANGED notProc

ProcNext ==
    \/ \E t \in CommandTimeouts : RunRefused(t)
    \/ \E t \in CommandTimeouts, spawned \in BOOLEAN : RunInSandbox(t, spawned)
    \/ StdoutData
    \/ \E code \in ExitCodes : ChildCloses(code)
    \/ TimeoutFires
    \/ KillTimerFires

----------------------------------------------------------------------------
(* Specifications: each part of the repository runs with the others at rest *)

\* The site: its build and its visitors.
Init ==
    /\ SiteInit
    /\ SSRIdle
    /\ failover = FailoverIdle
    /\ BreakerIdle
    /\ StorageIdle
    /\ AuthIdle
    /\ MonitorIdle
    /\ CompactIdle
    /\ SandboxIdle
    /\ SkillsIdle
    /\ ResourcesIdle
    /\ AgentIdle
    /\ ChannelIdle
    /\ ProcIdle

Spec == Init /\ [][Next]_vars

\* The homepage modules and the theme, under server-side rendering.
SSRInit ==
    /\ SiteInit
    /\ ssrContext \in SSRContexts
    /\ SSRLoaded
    /\ failover = FailoverIdle
    /\ BreakerIdle
    /\ StorageIdle
    /\ AuthIdle
    /\ MonitorIdle
    /\ CompactIdle
    /\ SandboxIdle
    /\ SkillsIdle
    /\ ResourcesIdle
    /\ AgentIdle
    /\ ChannelIdle
    /\ ProcIdle

SpecSSR == SSRInit /\ [][SSRNext]_vars

\* Lesson 8 (models): one call of callModelWithFailover.
SpecFailover == Init /\ [][FailoverNext]_vars

\* Lesson 8 (gateway.md): concurrent calls through one FailoverManager.
SpecBreaker == Init /\ [][BreakerNext]_vars

\* Lesson 7 (memory): getSession, saveSession and deleteSession, one call
\* at a time.
SpecStorage == Init /\ [][StorageNext]_vars

SpecAuth == Init /\ [][AuthNext]_vars

SpecMonitor == Init /\ [][MonitorNext]_vars

SpecCompact == Init /\ [][CompactNext]_vars

SpecSandbox == Init /\ [][SandboxNext]_vars

SpecSkills == Init /\ [][SkillsNext]_vars

SpecResources == Init /\ [][ResourcesNext]_vars

SpecAgent == Init /\ [][AgentNext]_vars

SpecChannel == Init /\ [][ChannelNext]_vars

SpecProc == Init /\ [][ProcNext]_vars

----------------------------------------------------------------------------
(* Claims *)

SiteInternal(link) == StartsWith(link, "/")

\* Whether s is an absolute URL, scheme plus host, with no trailing slash.
ValidHostname(s) ==
    \E scheme \in {"https://", "http://"} :
        /\ StartsWith(s, scheme)
        /\ Len(s) > Len(scheme)
        /\ SubSeq(s, Len(scheme) + 1, Len(scheme) + 1) # "/"
        /\ ~EndsWith(s, "/")

\* Whether locale k is the one route r selects: a non-default locale when its
\* prefix matches, the default locale when no other prefix does.
LocaleSelects(k, r) ==
    IF k = "root"
    THEN \A j \in DOMAIN locales \ {"root"} : ~LocaleMatches(j, r)
    ELSE LocaleMatches(k, r)

C3_LocaleResolution ==
    route # "" =>
        LET segs == Segments(route)
            sb   == site.themeConfig.sidebar
        IN  IF segs # <<>> /\ segs[1] = "en"
            THEN /\ site.localeIndex = "en"
                 /\ sb = enLocale.themeConfig.sidebar
                 /\ Len(sb) = 1
                 /\ Len(sb[1].items) = 10
                 /\ \A it \in Range(sb[1].items) :
                        StartsWith(it.link, "/en/") /\ ~StartsWith(it.text, "zh:")
            ELSE /\ site.localeIndex = "root"
                 /\ sb = rootLocale.themeConfig.sidebar
                 /\ Len(sb) = 1
                 /\ Len(sb[1].items) = 10
                 /\ \A it \in Range(sb[1].items) :
                        ~StartsWith(it.link, "/en/") /\ StartsWith(it.text, "zh:")

C3_Witness ==
    /\ route = "/en/guide/tools"
    /\ site.localeIndex = "en"
    /\ site.themeConfig.sidebar[1].text = "Technical Deep Dive"
    /\ site.themeConfig.sidebar[1].items[5].link = "/en/guide/tools"

\* C4. Exactly one locale: every requested route selects exactly one locale of
\* the configured locale map, the one the request is served with; the root
\* locale has the empty prefix, "/en" is the only other prefix, and no prefix
\* of one non-default locale lies under that of another.
C4_ExactlyOneLocale ==
    route # "" =>
        /\ Cardinality({k \in DOMAIN locales : LocaleSelects(k, route)}) = 1
        /\ LocaleSelects(site.localeIndex, route)
        /\ LocalePrefix("root") = ""
        /\ {LocalePrefix(k) : k \in DOMAIN locales \ {"root"}} = {"/en"}
        /\ \A j, k \in DOMAIN locales \ {"root"} :
               j # k => ~StartsWith(LocalePrefix(j) \o "/", LocalePrefix(k) \o "/")

C4_Witness ==
    /\ route = "/english/guide"
    /\ site.localeIndex = "root"
    /\ ~LocaleSelects("en", route)

\* C5. Merged configuration: the themeConfig a page is served with is the
\* global one overridden by the locale's; for en, siteTitle, nav, sidebar,
\* editLink.text and lastUpdated.text are the English ones while logo,
\* socialLinks, footer, search and editLink.pattern keep their global values;
\* for root, siteTitle and editLink are the global ones and nav and sidebar
\* the root locale's.
C5_MergedConfig ==
    route # "" =>
        LET tc == site.themeConfig
        IN  IF site.localeIndex = "en"
            THEN /\ tc.siteTitle = "Clawdbot Deep Dive"
                 /\ tc.nav = enNav
                 /\ tc.sidebar = enLocale.themeConfig.sidebar
                 /\ tc.editLink.text = "Edit this page on GitHub"
                 /\ tc.lastUpdated.text = "Last updated"
                 /\ tc.logo = themeConfig.logo
                 /\ tc.socialLinks = themeConfig.socialLinks
                 /\ tc.footer = themeConfig.footer
                 /\ tc.search = themeConfig.search
                 /\ "pattern" \in DOMAIN tc.editLink
                 /\ tc.editLink.pattern = themeConfig.editLink.pattern
            ELSE /\ tc.siteTitle = themeConfig.siteTitle
                 /\ tc.editLink = themeConfig.editLink
                 /\ tc.nav = rootNav
                 /\ tc.sidebar = rootLocale.themeConfig.sidebar

\* C6. For any configured hostname h, the og:image and the twitter:image tag
\* of every generated page, in both locales, is exactly h followed by
\* "/pixel-lobster.svg".
C6_ImageTags ==
    \A p \in pages :
        /\ TagContent(p.head, "og:image") = host \o "/pixel-lobster.svg"
        /\ TagContent(p.head, "twitter:image") = host \o "/pixel-lobster.svg"

C6_Witness ==
    /\ host = "https://example.org"
    /\ \E p \in pages :
           /\ p.file = "guide/intro.md"
           /\ TagContent(p.head, "og:image") = "https://example.org/pixel-lobster.svg"
    /\ \E p \in pages : p.localeIndex = "en"

\* C7. Every entry of the generated sitemap is the configured hostname
\* followed by the route of a page, every page has its entry, and the
\* hostname an entry begins with is the one the image tags begin with.
C7_SitemapHostname ==
    pc = "done" =>
        /\ \A p \in pages : host \o p.route \in sitemapXml
        /\ \A e \in sitemapXml :
               /\ StartsWith(e, host)
               /\ \E p \in pages :
                      /\ e = host \o p.route
                      /\ StartsWith(TagContent(p.head, "og:image"), DropLast(e, Len(p.route)))
                      /\ StartsWith(TagContent(p.head, "twitter:image"), DropLast(e, Len(p.route)))

C7_Witness ==
    /\ pc = "done"
    /\ host = "https://example.org"
    /\ "https://example.org/en/guide/tools" \in sitemapXml
    /\ Cardinality(sitemapXml) = Len(ContentFiles)

\* C8. The hostname the configuration ships with (before any operator edit)
\* is an absolute URL, scheme plus host, with no trailing slash:
\* "https://clawdbot-guide.com" passes, "https://clawdbot-guide.com/" and the
\* scheme-less "your-actual-domain.com" do not.
C8_HostnameFormat ==
    ~edited =>
        /\ ValidHostname(host)
        /\ host = "https://clawdbot-guide.com"
        /\ ~ValidHostname(host \o "/")
        /\ ~ValidHostname("your-actual-domain.com")

C8_Witness ==
    /\ ~edited
    /\ pc = "done"
    /\ pages # {}
    /\ \A p \in pages : StartsWith(TagContent(p.head, "og:image"), "https://clawdbot-guide.com/")

\* C11. The homepage render function (of the root and of the en module alike)
\* reads no runtime input: whatever the context, the props and the attrs, it
\* pushes the same minimal markup, so two renders with different attrs give
\* identical output.
C11_SameOutput ==
    \A r1, r2 \in pushed : r1.out = r2.out

\* C11, as amended.  The output of the homepage render function depends on
\* its attrs alone: whatever the module, the context and the props, it pushes
\* one string, two renders with the same attrs push the same string, and with
\* no attrs that string is "<div></div>".
C11_OutputOfAttrsAlone ==
    /\ \A r \in pushed :
           /\ Len(r.out) = 1
           /\ r.attrs = <<>> => r.out = <<"<div></div>">>
    /\ \A r1, r2 \in pushed : r1.attrs = r2.attrs => r1.out = r2.out

C11_Witness ==
    \E r1, r2 \in pushed :
        /\ r1.module = "index.md" /\ r2.module = "en/index.md"
        /\ r1.ctx # r2.ctx
        /\ r1.props # r2.props
        /\ r1.attrs = r2.attrs
        /\ r1.out = <<"<div class=\"home\"></div>">>
        /\ r2.out = r1.out

\* C12. The prebuilt homepage modules have no error path: for every SSR
\* context, an absent one and one with no 'modules' set yet included, setup
\* and then render complete without error.
C12_NoErrorPath ==
    threw = ""

\* C12, as amended.  For every SSR context object, with a 'modules' set or
\* without one, setup and render complete without error and setup leaves the
\* module's name in ssrContext.modules; with an absent context setup throws a
\* TypeError and registers nothing, and render still completes.
C12_ErrorOnlyWithoutContext ==
    /\ ssrContext.defined => threw = ""
    /\ ssrContext.defined /\ "setup" \in called =>
           /\ ssrContext.hasModules
           /\ ssrContext.modules \cap Range(Modules) # {}
    /\ ~ssrContext.defined =>
           /\ threw \in {"", "TypeError"}
           /\ ~ssrContext.hasModules
           /\ ssrContext.modules = {}
    /\ \A r \in pushed : Len(r.out) = 1

C12_Witness ==
    /\ ssrContext.defined
    /\ ssrContext.modules = {"en/index.md", "index.md"}
    /\ \E r \in pushed : r.module = "index.md"
    /\ {"setup", "render"} \subseteq called
    /\ threw = ""

\* C13. Nothing is mutated at run time: after any sequence of setup and
\* render calls on the homepage modules and of enhanceApp calls on the theme,
\* the exported __pageData of both modules, the site configuration and the
\* theme object are what they were when loaded.
C13_NoRuntimeMutation ==
    /\ pageData = [en |-> __pageData_en, root |-> __pageData_root]
    /\ theme = themeExport
    /\ host = hostname /\ ~edited /\ pc = "config"
    /\ todo = ContentFiles /\ pages = {} /\ sitemapXml = {}

C13_Witness ==
    /\ called = {"setup", "render", "enhanceApp"}
    /\ ssrContext.defined
    /\ ssrContext.modules = {"en/index.md", "index.md"}
    /\ Cardinality(pushed) = MaxRenders
    /\ pageData.en.relativePath = "en/index.md"

\* C14. Frontmatter round trip: the frontmatter of each prebuilt homepage
\* module's __pageData equals the frontmatter block of its source document
\* (layout 'home', hero name, text, tagline and image, two actions in order,
\* four features in order), and relativePath is 'en/index.md' for the English
\* module and 'index.md' for the root one.
C14_FrontmatterRoundTrip ==
    /\ \A k \in DOMAIN pageData :
           FlattenFrontmatter(pageData[k].frontmatter) = sourceFrontmatter[k]
    /\ \A k \in DOMAIN pageData :
           LET fm == pageData[k].frontmatter
           IN  /\ DOMAIN fm = {"layout", "hero", "features"}
               /\ DOMAIN fm.hero = {"name", "text", "tagline", "image", "actions"}
               /\ fm.layout = "home"
               /\ Len(fm.hero.actions) = 2
               /\ Len(fm.features) = 4
    /\ pageData.en.relativePath = "en/index.md"
    /\ pageData.root.relativePath = "index.md"

C14_Witness ==
    /\ called = {"setup", "render", "enhanceApp"}
    /\ <<"hero.name", "Clawdbot Deep Dive">> \in sourceFrontmatter.en
    /\ <<"hero.actions[2].text", "GitHub">> \in FlattenFrontmatter(pageData.en.frontmatter)
    /\ <<"features[4].title", "Intelligent Agent">> \in sourceFrontmatter.en
    /\ <<"hero.actions[1].link", "/guide/intro">> \in sourceFrontmatter.root
    /\ Cardinality(sourceFrontmatter.root) = 24

\* C15. Edit link: for every page of either locale the edit URL is the
\* configured pattern with ":path" replaced by the page's path relative to
\* docs/, that is
\* "https://github.com/nodfe/clawdbot-technical-analysis/edit/main/docs/"
\* followed by that path; the en locale changes only the link's text.
C15_EditLink ==
    \A p \in pages :
        LET tc == ResolveSiteData(p.localeIndex).themeConfig
        IN  /\ EditUrl(tc, p.file) =
                   "https://github.com/nodfe/clawdbot-technical-analysis/edit/main/docs/"
                   \o p.file
            /\ p.localeIndex = "en" => tc.editLink.text = "Edit this page on GitHub"

\* C17. The two locale trees are parallel: the sidebar of each locale is one
\* group of ten items in the same lesson order (intro, gateway, channels,
\* agents, tools, skills, memory, models, security, deployment), the i-th
\* English link is "/en" followed by the i-th root link, the same holds for
\* the site-internal nav items and for the primary hero action of the two
\* homepages ("/guide/intro", "/en/guide/intro"), and no link of the root
\* locale starts with "/en/".
C17_ParallelLocales ==
    LET order == <<"intro", "gateway", "channels", "agents", "tools",
                   "skills", "memory", "models", "security", "deployment">>
        rtc   == ResolveSiteData("root").themeConfig
        etc   == ResolveSiteData("en").themeConfig
        rhero == pageData.root.frontmatter.hero.actions[1].link
        ehero == pageData.en.frontmatter.hero.actions[1].link
    IN  /\ Len(rtc.sidebar) = 1 /\ Len(etc.sidebar) = 1
        /\ Len(rtc.sidebar[1].items) = 10 /\ Len(etc.sidebar[1].items) = 10
        /\ \A i \in 1..10 :
               /\ rtc.sidebar[1].items[i].link = "/guide/" \o order[i]
               /\ etc.sidebar[1].items[i].link = "/en" \o rtc.sidebar[1].items[i].link
        /\ Len(rtc.nav) = Len(etc.nav)
        /\ \A i \in DOMAIN rtc.nav :
               IF SiteInternal(rtc.nav[i].link)
               THEN etc.nav[i].link = "/en" \o rtc.nav[i].link
               ELSE etc.nav[i].link = rtc.nav[i].link
        /\ rhero = "/guide/intro" /\ ehero = "/en" \o rhero
        /\ \A l \in NavSidebarLinks(rtc) \cup {rhero} : ~StartsWith(l, "/en/")
        /\ route # "" /\ site.localeIndex = "en" =>
               \A l \in NavSidebarLinks(site.themeConfig) :
                   SiteInternal(l) => DropFirst(l, 3) \in NavSidebarLinks(rtc)

C17_Witness ==
    /\ route = "/en/guide/intro/"
    /\ site.themeConfig.sidebar[1].items[9].link = "/en/guide/security"
    /\ rootLocale.themeConfig.sidebar[1].items[9].link = "/guide/security"
    /\ site.themeConfig.nav[1].link = "/en/"
    /\ pageData.en.frontmatter.hero.actions[1].link = "/en/guide/intro"
    /\ pageData.root.frontmatter.hero.actions[1].link = "/guide/intro"

\* C18. Model failover: callModelWithFailover tries the primary model first
\* and then the fallbacks in their configured order, returns the result of
\* the first model that succeeds without calling any later model, and throws
\* "All models failed" only when every model of the list has been tried and
\* has failed.
C18_FailoverOrder ==
    LET order == <<failover.config.primary>> \o failover.config.fallbacks
        made  == failover.calls
    IN  failover.status # "idle" =>
            /\ Len(made) <= Len(order)
            /\ \A i \in DOMAIN made : made[i].model = order[i]
            /\ \A i \in DOMAIN made : i < Len(made) => ~made[i].ok
            /\ failover.status = "running" => \A i \in DOMAIN made : ~made[i].ok
            /\ failover.status = "returned" =>
                   /\ made # <<>>
                   /\ made[Len(made)].ok
                   /\ failover.result = "response of " \o order[Len(made)]
            /\ failover.status = "threw" <=>
                   /\ failover.result = "All models failed"
                   /\ Len(made) = Len(order)
                   /\ \A i \in DOMAIN made : ~made[i].ok

C18_Witness ==
    /\ failover.status = "returned"
    /\ failover.config = [primary |-> "gpt-4", fallbacks |-> <<"claude-opus", "gemini-pro">>]
    /\ failover.calls = <<[model |-> "gpt-4", ok |-> FALSE], [model |-> "claude-opus", ok |-> TRUE]>>
    /\ failover.result = "response of claude-opus"

\* Whether the circuit of model m has recorded failureThreshold failures
\* with no success since, the last of them less than timeout ago.
CircuitOpen(m) ==
    /\ states[m].failureCount >= failureThreshold
    /\ now - states[m].lastFailure < timeout

\* C19. Circuit breaker: once 5 failures have been recorded for a model with
\* no intervening success, FailoverManager.callModelWithFailover skips that
\* model and never routes a request to it until 60 seconds have passed since
\* its last failure; after that the model is attempted again (HALF_OPEN), a
\* further failure reopens the circuit, and a success resets it to CLOSED
\* with failure count 0.
C19_CircuitBreaker ==
    [][\A c \in Callers :
         calls[c].pc # "idle" /\ calls[c].i <= Len(calls[c].candidates) =>
           LET m      == calls[c].candidates[calls[c].i]
               checks == calls[c].pc = "loop" /\ calls'[c] # calls[c]
               ends   == calls[c].pc = "routed" /\ calls'[c].pc # "routed"
           IN  /\ calls[c].pc = "health" /\ calls'[c].pc = "routed" => ~CircuitOpen(m)
               /\ checks /\ CircuitOpen(m) =>
                      calls'[c].pc = "loop" /\ calls'[c].i = calls[c].i + 1
               /\ checks /\ states[m].failureCount >= failureThreshold /\ ~CircuitOpen(m) =>
                      calls'[c].pc = "health" /\ states'[m].state = "HALF_OPEN"
               /\ ends /\ states'[m].failureCount > 0 /\ states[m].state = "HALF_OPEN" =>
                      states'[m].state = "OPEN"
               /\ ends /\ states'[m].failureCount = 0 =>
                      states'[m] = [state |-> "CLOSED", failureCount |-> 0, lastFailure |-> 0]
      ]_vars

\* C19, as amended.  Once 5 failures have been recorded for a model with no
\* intervening success, a call that reaches that model in its loop before 60
\* seconds have passed since the last failure skips it (a call that passed
\* that point earlier and is awaiting the health check still routes its
\* request); from 60 seconds on the model is attempted again and its circuit
\* is HALF_OPEN, a further failure reopens the circuit, and a success resets
\* it to CLOSED with failure count 0.
C19_SkipsWhenChecked ==
    [][\A c \in Callers :
         calls[c].pc # "idle" /\ calls[c].i <= Len(calls[c].candidates) =>
           LET m      == calls[c].candidates[calls[c].i]
               checks == calls[c].pc = "loop" /\ calls'[c] # calls[c]
               ends   == calls[c].pc = "routed" /\ calls'[c].pc # "routed"
           IN  /\ checks /\ CircuitOpen(m) =>
                      /\ calls'[c].pc = "loop" /\ calls'[c].i = calls[c].i + 1
                      /\ states' = states
               /\ checks /\ states[m].failureCount >= failureThreshold /\ ~CircuitOpen(m) =>
                      calls'[c].pc = "health" /\ states'[m].state = "HALF_OPEN"
               /\ ends /\ states'[m].failureCount > 0 /\ states[m].state = "HALF_OPEN" =>
                      states'[m].state = "OPEN" /\ states'[m].lastFailure = now
               /\ ends /\ states'[m].failureCount = 0 =>
                      states'[m] = [state |-> "CLOSED", failureCount |-> 0, lastFailure |-> 0]
      ]_vars

C19_Witness ==
    \E c \in Callers :
        LET m == "openai/gpt-4o-mini"
        IN  /\ calls[c].pc = "routed" /\ calls[c].i = 1
            /\ states[m].state = "HALF_OPEN"
            /\ states[m].failureCount = failureThreshold
            /\ now - states[m].lastFailure >= timeout
            /\ \E d \in Callers \ {c} : calls[d].pc = "loop" /\ calls[d].i = 2

\* C20. Session cache eviction: when the cache of SessionStorageManager is
\* full (size >= maxCacheSize) and a session is loaded from disk by
\* getSession or stored by saveSession, the entry evicted is the least
\* recently accessed one (LRU), a getSession cache hit counting as an access.
C20_EvictsLeastRecentlyAccessed ==
    evicted.key # "" => evicted.key \in evicted.lru

\* C21: validateSession returns a session only for a token that createSession
\* returned, that was not revoked and is not past its expiresAt; a token that
\* was revoked or found expired is absent from the map, and validateSession
\* returns null for it; a successful validation leaves expiresAt 24 hours
\* after the time of the validation.
C21_SessionValidity ==
    /\ \A t \in revoked \cup expiredFound : sessions[t] = NoSession
    /\ lastAuth.op = "validateSession" =>
          /\ lastAuth.token \in revoked \cup expiredFound => lastAuth.result = NoSession
          /\ lastAuth.result # NoSession =>
                /\ lastAuth.token \in created
                /\ lastAuth.token \notin revoked \cup expiredFound
                /\ lastAuth.at <= lastAuth.before.expiresAt
                /\ lastAuth.result.id = lastAuth.token
                /\ lastAuth.result.expiresAt = lastAuth.at + 24 * 60 * 60 * 1000
                /\ sessions[lastAuth.token] = lastAuth.result

\* a session validated at its exact expiry instant and so given a new day,
\* while another token, found expired earlier, is gone
C21_Witness ==
    /\ lastAuth.op = "validateSession"
    /\ lastAuth.result # NoSession
    /\ lastAuth.at = lastAuth.before.expiresAt
    /\ expiredFound # {}
    /\ revoked = {}

\* the login failures of the user of the last logged event, as logged so far
C22_Failures ==
    SelectSeq(eventLog, LAMBDA e : /\ e.type = "login_failure"
                                   /\ e.userId = lastLog.event.userId)

\* C22: when the event just logged is a login failure and the log now holds
\* five or more login failures of that user, all within five minutes, the
\* call detected a brute-force anomaly (confidence 0.9, action 'block') and
\* every callback subscribed at that time was called with the alert for it.
C22_BruteForceDetected ==
    (/\ lastLog.event.type = "login_failure"
     /\ Len(C22_Failures) >= 5
     /\ getTimeSpan(C22_Failures) < 300000)
    => \E n \in lastLog.anomalies :
          /\ n.confidence = 9
          /\ n.suggestedAction = "block"
          /\ n.description = "Potential brute force attack detected for user "
                                \o lastLog.event.userId
          /\ \A cb \in DOMAIN lastLog.delivered :
                \E al \in lastLog.delivered[cb] : al.anomaly = n

\* the last n elements of a sequence (all of it when it is shorter)
C23_LastN(h, n) == SubSeq(h, (IF n > Len(h) THEN 0 ELSE Len(h) - n) + 1, Len(h))

C23_PreserveRecent ==
    IF lastCompact.preserveRecent.given THEN lastCompact.preserveRecent.value ELSE 10

\* C23: a compactSession call compresses exactly when the stored token count
\* is at least maxTokens * summaryThreshold; then the saved history is the
\* last preserveRecent messages (default 10, any non-negative value) in
\* order, preceded by exactly one summary system message when older messages
\* exist and summarizeOld is not false; below the threshold the session is
\* neither modified nor saved and compressed = false is returned.
C23_Compaction ==
    (lastCompact.called /\ ~lastCompact.threw) =>
       LET before == lastCompact.before.history
           recent == C23_LastN(before, C23_PreserveRecent)
           older == SubSeq(before, 1, Len(before) - Len(recent))
           summarized == older # <<>> /\ lastCompact.summarizeOld # "false"
       IN IF lastCompact.before.tokenCount >= 6400
          THEN /\ lastCompact.result.compressed
               /\ memorySaves = lastCompact.savesBefore + 1
               /\ Len(memory.history) = Len(recent) + (IF summarized THEN 1 ELSE 0)
               /\ SubSeq(memory.history, Len(memory.history) - Len(recent) + 1,
                         Len(memory.history)) = recent
               /\ summarized => memory.history[1].role = "system"
          ELSE /\ ~lastCompact.result.compressed
               /\ memory = lastCompact.before
               /\ memorySaves = lastCompact.savesBefore

C24_IsMain == sessionContext.sessionKey = "main"
                 \/ StartsWith(sessionContext.sessionKey, "main:")

\* C24: a tool that secureToolExecution executed is not on the session's
\* denylist and is on its allowlist when there is one; under
\* applySandboxRules a non-main session in mode 'non-main' has both lists,
\* and a 'main' or 'main:*' session has neither and every tool it asks for
\* is executed.
C24_ToolGating ==
    /\ toolCall.outcome = "executed" =>
          /\ sessionContext.sandbox.denylist.isNull
                \/ toolCall.toolName \notin sessionContext.sandbox.denylist.items
          /\ sessionContext.sandbox.allowlist.isNull
                \/ toolCall.toolName \in sessionContext.sandbox.allowlist.items
    /\ sessionContext.applied =>
          /\ (sessionContext.mode = "non-main" /\ ~C24_IsMain) =>
                /\ ~sessionContext.sandbox.allowlist.isNull
                /\ ~sessionContext.sandbox.denylist.isNull
          /\ C24_IsMain =>
                /\ sessionContext.sandbox.allowlist.isNull
                /\ sessionContext.sandbox.denylist.isNull
                /\ toolCall.called => toolCall.outcome = "executed"

\* a sandboxed session is refused a tool that is on both of its lists
C24_Witness ==
    /\ sessionContext.applied
    /\ sessionContext.sessionKey = "mainframe"
    /\ toolCall.outcome = "threw"
    /\ toolCall.toolName \in sessionContext.sandbox.allowlist.items
    /\ toolCall.toolName \in sessionContext.sandbox.denylist.items

C26_ConcurrentRunLimit ==
    /\ Cardinality({id \in ResourceIds : activeResources[id] = "agent"})
          <= maxConcurrentRuns
    /\ (acquireReturn.called /\ ~acquireReturn.result) => ~acquireReturn.changed

\* the limit is reached, an agent acquisition was just refused for a new id,
\* and another agent acquisition is still waiting
C26_Witness ==
    /\ acquireReturn.called
    /\ ~acquireReturn.result
    /\ acquireReturn.type = "agent"
    /\ activeResources[acquireReturn.id] = "none"
    /\ Cardinality({id \in ResourceIds : activeResources[id] = "agent"}) = 2
    /\ \E c \in Acquirers : /\ acquiring[c].pc = "getSystemStatus"
                            /\ acquiring[c].type = "agent"

\* C27: within one run, compaction on context overflow is attempted at most
\* once; an attempt that fails with overflow when compaction was already
\* attempted, or whose compaction reports compacted = false, ends the run
\* with the context-overflow error payload; so a run holds at most two
\* attempts that fail with overflow, and overflow alone cannot keep the loop
\* going.
C27_OverflowRetryBound ==
    /\ run.compactions <= 1
    /\ run.overflowFailures <= 2
    /\ (failsWithOverflow(run.lastAttempt) /\ run.attemptedBefore) =>
          (run.pc = "done" /\ run.result = "context-overflow")
    /\ run.lastCompaction = "not compacted" =>
          (run.pc = "done" /\ run.result = "context-overflow")
    /\ run.pc = "compact" => run.compactions = 0

\* overflow, a compaction that worked, overflow again: the run has ended
\* with the error payload
C27_Witness ==
    /\ run.pc = "done"
    /\ run.result = "context-overflow"
    /\ run.compactions = 1
    /\ run.lastCompaction = "compacted"
    /\ run.overflowFailures = 2

\* C28: in mode 'implicit' or 'heartbeat', with a normalized allowlist that
\* is not empty and an allowFrom without '*', resolveTarget returns a target
\* of the allowlist or a group JID; in any other mode a target that
\* normalizes is returned, normalized, whatever the allowlist; with no
\* usable target and an empty allowlist the result is ok = false.
C28_TargetResolution ==
    resolved.called =>
       LET allowList == normalizedAllowList(resolved.allowFrom)
           wildcard == \E i \in 1..Len(resolved.allowFrom) :
                           trim(resolved.allowFrom[i]) = "*"
           target == normalizeWhatsAppTarget(trim(resolved.to))
           implicit == resolved.mode \in {"implicit", "heartbeat"}
       IN /\ (implicit /\ allowList # <<>> /\ ~wildcard) =>
                /\ resolved.result.ok
                /\ \/ \E i \in 1..Len(allowList) : resolved.result.to = allowList[i]
                   \/ EndsWith(resolved.result.to, "@g.us")
          /\ (~implicit /\ target # "") =>
                (resolved.result.ok /\ resolved.result.to = target)
          /\ (target = "" /\ allowList = <<>>) => ~resolved.result.ok

\* an implicit send to a number outside the allowlist goes to the first
\* allowlist entry instead
C28_Witness ==
    /\ resolved.called
    /\ resolved.mode = "implicit"
    /\ resolved.to = "+1 555 0100"
    /\ resolved.allowFrom = <<"nobody", "1 555 0300 ">>
    /\ resolved.result = [ok |-> TRUE, to |-> "+15550300", error |-> ""]

\* C29: the result runInSandbox returns is that of whichever happened
\* first, the child's close or the timeout, and when the child closed before
\* the timeout no SIGTERM or SIGKILL is sent to its pid afterwards.
C29_SandboxTimeout ==
    /\ proc.first # "none" => proc.settledBy = proc.first
    /\ \A s \in proc.signals : ~s.closedFirst

\* C30: a homepage module's setup adds its own id ('index.md' or
\* 'en/index.md') to ssrContext.modules, creating the set when there is none
\* and removing nothing; after any sequence of setups on an SSR context its
\* modules set holds exactly the ids of the modules whose setup has run on
\* it, each once.
C30_ModuleRegistration ==
    ssrContext.defined =>
       /\ ssrContext.modules = setupsRun
       /\ ~ssrContext.hasModules => "setup" \notin called
       /\ "setup" \in called =>
             /\ ssrContext.hasModules
             /\ setupsRun \cap {"index.md", "en/index.md"} # {}
       /\ setupsRun \subseteq {"index.md", "en/index.md", "guide/intro.md"}

\* both homepage modules set up on a context that already held another
\* module's id
C30_Witness ==
    /\ ssrContext.defined
    /\ "setup" \in called
    /\ ssrContext.modules = {"guide/intro.md", "index.md", "en/index.md"}
    /\ setupsRun = ssrContext.modules

====
